---------------------------- MODULE Spec2Model ----------------------------
(***************************************************************************)
(* hyprswitcher: the switcher session (wayland.c), its inputs (input.c,    *)
(* hypr_events.c, ipc.c) and the single-instance election                  *)
(* (switcher_ipc.c, main.c).                                               *)
(*                                                                         *)
(* Spec      the main instance: wayland_loop_with_ipc and every handler it *)
(*           calls, beside an environment made of the compositor (window   *)
(*           directory, event socket, display events) and the helpers.     *)
(* SpecElect several invocations of main() racing on one runtime directory.*)
(* SpecProto one command string sent by a helper and read by the main     *)
(*           instance, byte by byte (switcher_ipc_send, read_command).     *)
(* SpecRequest one request to the compositor's window directory            *)
(*           (hypr_ipc_send_recv) beside a peer that writes and closes.    *)
(* SpecFocus one call of hypr_ipc_focus_client, request by request.        *)
(* SpecSort  one call of hypr_ipc_sort_clients_by_focus.                   *)
(* SpecParse one openwindow line through parse_event_line.                 *)
(* SpecCleanup two calls of switcher_ipc_cleanup, system call by call.     *)
(* SpecListen one call of switcher_ipc_listen, system call by call.        *)
(* SpecInput the keyboard listener of input.c beside its one-shot queries. *)
(* SpecPoll  the poll section of wayland_loop_with_ipc, call by call.      *)
(* SpecLive  the main instance under weak fairness of its loop, with a     *)
(*           directory request that may never return.                      *)
(* SpecRefresh the loop with refresh_client_list statement by statement    *)
(*           and the event socket's descriptor in the polled set.          *)
(* SpecShutdown two calls of wayland_shutdown, statement by statement.     *)
(* SpecAccept helpers' connect, write and close beside the accept, read    *)
(*           and close of process_ipc_commands.                            *)
(* SpecReader hypr_events_read on the bytes of its buffer.                 *)
(***************************************************************************)
EXTENDS Integers, Sequences, FiniteSets, TLC

(***************************************************************************)
(* Bounds of the model.                                                    *)
(***************************************************************************)
NumAddr == 3        \* window addresses 1..NumAddr
MaxEnv == 3         \* environment steps in one run of the session
NumProc == 2        \* concurrent invocations of main()

Addr == 1..NumAddr
NULL == 0           \* a NULL char* address
NONE == -1          \* the index "none"

(***************************************************************************)
(* Sequences helpers.                                                      *)
(***************************************************************************)
Range(q) == {q[i] : i \in 1..Len(q)}

RemoveAt(q, i) == SubSeq(q, 1, i - 1) \o SubSeq(q, i + 1, Len(q))

InsertAt(q, i, x) == SubSeq(q, 1, i - 1) \o <<x>> \o SubSeq(q, i, Len(q))

\* The sequences of distinct addresses: the compositor's windows, most
\* recently focused first.
Worlds == {w \in UNION {[1..n -> Addr] : n \in 0..NumAddr} :
             \A i, j \in 1..Len(w) : i # j => w[i] # w[j]}

\* The windows open when the session starts: addresses 1..n, the youngest
\* (highest) address focused last, so that focus order and address order
\* differ.
InitWorlds == {w \in Worlds : \A i \in 1..Len(w) : w[i] = Len(w) + 1 - i}

(***************************************************************************)
(* WindowDirectoryClient (ipc.c).                                          *)
(***************************************************************************)
\* The reply to j/clients: one record per window, in the compositor's own
\* order (by address), focusHistoryID = the window's place in the focus
\* stack of world w.
RECURSIVE RawDir(_, _)
RawDir(w, a) ==
    IF a > NumAddr THEN <<>>
    ELSE (IF a \in Range(w)
          THEN <<[address |-> a,
                  focusHistoryID |-> (CHOOSE i \in 1..Len(w) : w[i] = a) - 1]>>
          ELSE <<>>) \o RawDir(w, a + 1)

\* hypr_ipc_get_clients_basic: rc 0 and the parsed records, or rc -1 and
\* the out-parameters reset to NULL/0.
hypr_ipc_get_clients_basic(w, ok) ==
    IF ok THEN [rc |-> 0, list |-> RawDir(w, 1)]
    ELSE [rc |-> -1, list |-> <<>>]

\* The order by the number alone, -1 before 0.
FocusLess_numeric(x, y) == x.focusHistoryID < y.focusHistoryID

\* Sort key: -1 (unknown) is greater than any real focusHistoryID.
FocusLess(x, y) ==
    /\ x.focusHistoryID # -1
    /\ (y.focusHistoryID = -1 \/ x.focusHistoryID < y.focusHistoryID)

RECURSIVE SortInsert(_, _)
SortInsert(sorted, x) ==
    IF sorted = <<>> THEN <<x>>
    ELSE IF FocusLess(x, sorted[Len(sorted)])
         THEN Append(SortInsert(SubSeq(sorted, 1, Len(sorted) - 1), x),
                     sorted[Len(sorted)])
         ELSE Append(sorted, x)

\* hypr_ipc_sort_clients_by_focus: stable, ascending, -1 last.
RECURSIVE hypr_ipc_sort_clients_by_focus(_)
hypr_ipc_sort_clients_by_focus(list) ==
    IF list = <<>> THEN <<>>
    ELSE SortInsert(hypr_ipc_sort_clients_by_focus(SubSeq(list, 1, Len(list) - 1)),
                    list[Len(list)])

(***************************************************************************)
(* The session's globals (wayland.c 25-62, input.c 21-29) as one record.   *)
(***************************************************************************)
InitSession(evfd) ==
    [ display |-> TRUE,
      layer_surface |-> TRUE,
      configured |-> FALSE,
      g_clients |-> <<>>,
      g_selection_index |-> NONE,
      g_selected_address |-> NULL,
      g_initial_focus_index |-> NONE,
      g_initial_focus_address |-> NULL,
      g_hypr_events_fd |-> evfd,
      g_needs_redraw |-> FALSE,
      g_clients_dirty |-> FALSE,
      g_esc_flag |-> FALSE,
      g_alt_tab_flag |-> FALSE,
      g_focus_lost_flag |-> FALSE,
      g_alt_released_flag |-> FALSE,
      g_shift_down |-> FALSE ]

g_client_count(s) == Len(s.g_clients)

\* selection_set with the upper test off by one (> for >=).
selection_set_off_by_one(s, new_index, wrap) ==
    LET old_index == s.g_selection_index
        n == Len(s.g_clients)
    IN IF n = 0
       THEN [s EXCEPT !.g_selection_index = NONE,
                      !.g_needs_redraw = @ \/ old_index # NONE]
       ELSE LET idx == IF new_index < 0 THEN (IF wrap THEN n - 1 ELSE 0)
                       ELSE IF new_index > n THEN (IF wrap THEN 0 ELSE n - 1)
                       ELSE new_index
            IN [s EXCEPT !.g_selection_index = idx,
                         !.g_selected_address =
                             IF idx >= 0 /\ idx < n THEN s.g_clients[idx + 1].address
                             ELSE NULL,
                         !.g_needs_redraw = @ \/ old_index # idx]

\* selection_set(new_index, wrap)
selection_set(s, new_index, wrap) ==
    LET old_index == s.g_selection_index
        n == g_client_count(s)
    IN IF n = 0
       THEN [s EXCEPT !.g_selection_index = NONE,
                      !.g_needs_redraw = @ \/ old_index # NONE]
       ELSE LET idx == IF new_index < 0 THEN (IF wrap THEN n - 1 ELSE 0)
                       ELSE IF new_index >= n THEN (IF wrap THEN 0 ELSE n - 1)
                       ELSE new_index
            IN [s EXCEPT !.g_selection_index = idx,
                         !.g_selected_address =
                             IF idx >= 0 /\ idx < n THEN s.g_clients[idx + 1].address
                             ELSE NULL,
                         !.g_needs_redraw = @ \/ old_index # idx]

\* find_client_by_address: the first index holding the address, else -1.
find_client_by_address(s, address) ==
    IF address = NULL \/ s.g_clients = <<>> THEN -1
    ELSE LET hits == {i \in 1..Len(s.g_clients) : s.g_clients[i].address = address}
         IN IF hits = {} THEN -1
            ELSE (CHOOSE i \in hits : \A j \in hits : i <= j) - 1

\* preserve_selection that never looks the address up.
preserve_selection_by_index(s) ==
    IF g_client_count(s) = 0 THEN selection_set(s, -1, FALSE)
    ELSE selection_set(s, s.g_selection_index, FALSE)

\* preserve_selection that starts over at the first record when the
\* address is gone.
preserve_selection_reset(s) ==
    IF g_client_count(s) = 0 THEN selection_set(s, -1, FALSE)
    ELSE LET found == find_client_by_address(s, s.g_selected_address)
         IN IF s.g_selected_address # NULL /\ found >= 0
            THEN selection_set(s, found, FALSE)
            ELSE selection_set(s, 0, FALSE)

\* preserve_selection
preserve_selection(s) ==
    IF g_client_count(s) = 0 THEN selection_set(s, -1, FALSE)
    ELSE LET found == find_client_by_address(s, s.g_selected_address)
         IN IF s.g_selected_address # NULL /\ found >= 0
            THEN selection_set(s, found, FALSE)
            ELSE selection_set(s, s.g_selection_index, FALSE)

\* cycle_forward / cycle_backward
cycle_forward(s) ==
    IF g_client_count(s) > 0 THEN selection_set(s, s.g_selection_index + 1, TRUE)
    ELSE s

\* cycle_backward that clamps at the first record.
cycle_backward_clamp(s) ==
    IF g_client_count(s) > 0 THEN selection_set(s, s.g_selection_index - 1, FALSE)
    ELSE s

cycle_backward(s) ==
    IF g_client_count(s) > 0 THEN selection_set(s, s.g_selection_index - 1, TRUE)
    ELSE s

\* refresh_client_list, given the directory's answer r
refresh_client_list(s, r) ==
    LET fetched == [s EXCEPT !.g_clients =
                        IF r.rc # 0 THEN <<>>
                        ELSE hypr_ipc_sort_clients_by_focus(r.list)]
        kept == preserve_selection(fetched)
    IN [kept EXCEPT !.g_needs_redraw = TRUE, !.g_clients_dirty = FALSE]

\* layer_surface_configure that starts the selection on the focused window.
layer_surface_configure_first(s, r) ==
    LET reset == [s EXCEPT !.configured = TRUE,
                           !.g_clients = <<>>,
                           !.g_selection_index = NONE,
                           !.g_initial_focus_index = NONE,
                           !.g_initial_focus_address = NULL]
    IN IF r.rc = 0
       THEN LET list == hypr_ipc_sort_clients_by_focus(r.list)
                n == Len(list)
                sel == IF n > 0 THEN 0 ELSE NONE
            IN [reset EXCEPT
                  !.g_clients = list,
                  !.g_initial_focus_index = 0,
                  !.g_initial_focus_address = IF n > 0 THEN list[1].address ELSE NULL,
                  !.g_selection_index = sel,
                  !.g_selected_address = IF sel >= 0 THEN list[sel + 1].address ELSE NULL,
                  !.g_needs_redraw = FALSE]
       ELSE reset

\* layer_surface_configure, given the directory's answer r
layer_surface_configure(s, r) ==
    LET reset == [s EXCEPT !.configured = TRUE,
                           !.g_clients = <<>>,
                           !.g_selection_index = NONE,
                           !.g_initial_focus_index = NONE,
                           !.g_initial_focus_address = NULL]
    IN IF r.rc = 0
       THEN LET list == hypr_ipc_sort_clients_by_focus(r.list)
                n == Len(list)
                sel == IF n > 1 THEN 1 ELSE IF n = 1 THEN 0 ELSE NONE
            IN [reset EXCEPT
                  !.g_clients = list,
                  !.g_initial_focus_index = 0,
                  !.g_initial_focus_address = IF n > 0 THEN list[1].address ELSE NULL,
                  !.g_selection_index = sel,
                  !.g_selected_address = IF sel >= 0 THEN list[sel + 1].address ELSE NULL,
                  !.g_needs_redraw = FALSE]
       ELSE reset

\* input_clear_flags / input_shutdown
input_shutdown(s) ==
    [s EXCEPT !.g_esc_flag = FALSE,
              !.g_alt_tab_flag = FALSE,
              !.g_focus_lost_flag = FALSE,
              !.g_alt_released_flag = FALSE,
              !.g_shift_down = FALSE]

\* wayland_shutdown
wayland_shutdown(s) ==
    input_shutdown([s EXCEPT !.g_hypr_events_fd = FALSE,
                             !.layer_surface = FALSE,
                             !.g_clients = <<>>,
                             !.g_initial_focus_address = NULL,
                             !.g_selected_address = NULL,
                             !.g_selection_index = NONE,
                             !.g_initial_focus_index = NONE,
                             !.display = FALSE])

\* wayland_focus_selected that always takes the first record.
wayland_focus_first(s) ==
    IF g_client_count(s) > 0 THEN <<s.g_clients[1]>> ELSE <<>>

\* wayland_focus_selected: the records handed to hypr_ipc_focus_client.
wayland_focus_selected(s) ==
    IF /\ g_client_count(s) > 0
       /\ s.g_selection_index >= 0
       /\ s.g_selection_index < g_client_count(s)
    THEN <<s.g_clients[s.g_selection_index + 1]>>
    ELSE <<>>

\* wayland_restore_initial_focus without the search by address.
wayland_restore_by_index(s) ==
    IF /\ g_client_count(s) > 0
       /\ s.g_initial_focus_index >= 0
       /\ s.g_initial_focus_index < g_client_count(s)
    THEN <<s.g_clients[s.g_initial_focus_index + 1]>>
    ELSE <<>>

\* wayland_restore_initial_focus: the records handed to hypr_ipc_focus_client.
wayland_restore_initial_focus(s) ==
    LET found == find_client_by_address(s, s.g_initial_focus_address)
    IN IF s.g_initial_focus_address # NULL /\ s.g_clients # <<>> /\ found >= 0
       THEN <<s.g_clients[found + 1]>>
       ELSE IF /\ g_client_count(s) > 0
               /\ s.g_initial_focus_index >= 0
               /\ s.g_initial_focus_index < g_client_count(s)
            THEN <<s.g_clients[s.g_initial_focus_index + 1]>>
            ELSE <<>>


(***************************************************************************)
(* CommandProtocol (switcher_ipc.h 25-31, switcher_ipc.c 129-147, 230-268). *)
(* A C string is the sequence of its characters; a buffer is a sequence of  *)
(* bytes, NUL among them.                                                   *)
(***************************************************************************)
NUL == "NUL"

SWITCHER_IPC_MSG_SIZE == 16

SWITCHER_CMD_CYCLE == <<"C", "Y", "C", "L", "E">>

SWITCHER_CMD_CYCLE_BACKWARD ==
    <<"C", "Y", "C", "L", "E", "_", "B", "A", "C", "K", "W", "A", "R", "D">>

SWITCHER_CMD_COMMIT == <<"C", "O", "M", "M", "I", "T">>

SWITCHER_CMD_CANCEL == <<"C", "A", "N", "C", "E", "L">>

\* command_to_string
command_to_string(cmd) ==
    CASE cmd = "CYCLE" -> SWITCHER_CMD_CYCLE
      [] cmd = "CYCLE_BACKWARD" -> SWITCHER_CMD_CYCLE_BACKWARD
      [] cmd = "COMMIT" -> SWITCHER_CMD_COMMIT
      [] cmd = "CANCEL" -> SWITCHER_CMD_CANCEL
      [] OTHER -> SWITCHER_CMD_CYCLE

\* The byte at place i of a buffer that NULs follow.
ByteAt(buf, i) == IF i <= Len(buf) THEN buf[i] ELSE NUL

\* strncpy(dst, src, n) into a zeroed dst: n bytes, the string's characters
\* and then NULs.
strncpy(src, n) == [i \in 1..n |-> ByteAt(src, i)]

\* strncmp(a, b, n) from byte i on: the first n bytes agree, or the bytes
\* agree up to a NUL before that.
RECURSIVE strncmp_from(_, _, _, _)
strncmp_from(a, b, n, i) ==
    IF i > n THEN TRUE
    ELSE IF ByteAt(a, i) # ByteAt(b, i) THEN FALSE
    ELSE IF ByteAt(a, i) = NUL THEN TRUE
    ELSE strncmp_from(a, b, n, i + 1)

\* strncmp(a, b, n) == 0
strncmp_equal(a, b, n) == strncmp_from(a, b, n, 1)

\* switcher_ipc_send that copies the whole string.
switcher_ipc_send_whole(command) ==
    IF Len(command) >= SWITCHER_IPC_MSG_SIZE THEN command \o <<NUL>>
    ELSE strncpy(command, SWITCHER_IPC_MSG_SIZE)

\* switcher_ipc_send, lines 134-136: the buffer handed to write().
switcher_ipc_send(command) ==
    strncpy(command, SWITCHER_IPC_MSG_SIZE - 1) \o <<NUL>>

\* switcher_ipc_read_command that tests the shorter name first.
switcher_ipc_read_command_cycle_first(got) ==
    LET msg == strncpy(got, SWITCHER_IPC_MSG_SIZE + 1)
    IN IF Len(got) = 0 THEN "SWITCHER_CMD_TYPE_NONE"
       ELSE IF strncmp_equal(msg, SWITCHER_CMD_CYCLE, Len(SWITCHER_CMD_CYCLE))
       THEN "SWITCHER_CMD_TYPE_CYCLE"
       ELSE IF strncmp_equal(msg, SWITCHER_CMD_CYCLE_BACKWARD,
                             Len(SWITCHER_CMD_CYCLE_BACKWARD))
       THEN "SWITCHER_CMD_TYPE_CYCLE_BACKWARD"
       ELSE IF strncmp_equal(msg, SWITCHER_CMD_COMMIT, Len(SWITCHER_CMD_COMMIT))
       THEN "SWITCHER_CMD_TYPE_COMMIT"
       ELSE IF strncmp_equal(msg, SWITCHER_CMD_CANCEL, Len(SWITCHER_CMD_CANCEL))
       THEN "SWITCHER_CMD_TYPE_CANCEL"
       ELSE "SWITCHER_CMD_TYPE_UNKNOWN"

\* switcher_ipc_read_command, given the bytes read() obtained (none when the
\* read failed or the peer had written nothing).
switcher_ipc_read_command(got) ==
    LET msg == strncpy(got, SWITCHER_IPC_MSG_SIZE + 1)
    IN IF Len(got) = 0 THEN "SWITCHER_CMD_TYPE_NONE"
       ELSE IF strncmp_equal(msg, SWITCHER_CMD_CYCLE_BACKWARD,
                             Len(SWITCHER_CMD_CYCLE_BACKWARD))
       THEN "SWITCHER_CMD_TYPE_CYCLE_BACKWARD"
       ELSE IF strncmp_equal(msg, SWITCHER_CMD_CYCLE, Len(SWITCHER_CMD_CYCLE))
       THEN "SWITCHER_CMD_TYPE_CYCLE"
       ELSE IF strncmp_equal(msg, SWITCHER_CMD_COMMIT, Len(SWITCHER_CMD_COMMIT))
       THEN "SWITCHER_CMD_TYPE_COMMIT"
       ELSE IF strncmp_equal(msg, SWITCHER_CMD_CANCEL, Len(SWITCHER_CMD_CANCEL))
       THEN "SWITCHER_CMD_TYPE_CANCEL"
       ELSE "SWITCHER_CMD_TYPE_UNKNOWN"

\* The connections a client can leave in the backlog, each named by what
\* it wrote: the frame of one of the four commands, nothing, the first half
\* of a COMMIT frame, or a frame with another payload.
Frames == {"CYCLE", "CYCLE_BACKWARD", "COMMIT", "CANCEL",
           "EMPTY", "COMMIT_HALF", "BOGUS", "CYCLES"}

\* read(client_fd, msg, SWITCHER_IPC_MSG_SIZE): the bytes it obtains from
\* connection frame.
Received(frame) ==
    CASE frame = "EMPTY" -> <<>>
      [] frame = "COMMIT_HALF" ->
            SubSeq(switcher_ipc_send(SWITCHER_CMD_COMMIT), 1, 8)
      [] frame = "BOGUS" -> switcher_ipc_send(<<"B", "O", "G", "U", "S">>)
      [] frame = "CYCLES" -> switcher_ipc_send(SWITCHER_CMD_CYCLE \o <<"S">>)
      [] OTHER -> switcher_ipc_send(command_to_string(frame))

\* switcher_ipc_read_command on an accepted connection: the command type it
\* returns for the bytes of each connection.
accepted_command ==
    [frame \in Frames |-> switcher_ipc_read_command(Received(frame))]

(***************************************************************************)
(* EventStreamReader (hypr_events.c).  The buffer and the socket hold      *)
(* complete lines.                                                         *)
(***************************************************************************)
\* A line is told by its event name; "malformed" is a line without ">>",
\* "unknown" a line with another name than the four.
EventLines ==
    [type : {"closewindow"}, address : Addr]
    \cup [type : {"openwindow", "activewindow", "movewindow", "unknown",
                  "malformed"},
          address : {NULL}]

\* parse_event_line: false for a line without ">>" (lines 90-94) and for a
\* line with an unknown name (199-203).
parse_event_line(line) ==
    IF line.type = "malformed" THEN FALSE
    ELSE line.type \in {"openwindow", "closewindow", "activewindow", "movewindow"}

\* hypr_events_read that empties the buffer when its first line does not
\* parse.
hypr_events_read_drop(buf, sock) ==
    LET first == buf # <<>> /\ parse_event_line(Head(buf))
        buf2 == sock
    IN IF first
       THEN [ret |-> TRUE, event |-> Head(buf), buf |-> Tail(buf), sock |-> sock]
       ELSE IF sock # <<>>
            THEN [ret |-> parse_event_line(Head(buf2)), event |-> Head(buf2),
                  buf |-> Tail(buf2), sock |-> <<>>]
            ELSE [ret |-> FALSE, event |-> [type |-> "unknown", address |-> NULL],
                  buf |-> <<>>, sock |-> sock]

\* hypr_events_read(fd, &event) on buffer buf and socket sock.
hypr_events_read(buf, sock) ==
    LET first == buf # <<>> /\ parse_event_line(Head(buf))
        buf1 == IF buf # <<>> THEN Tail(buf) ELSE buf
        buf2 == buf1 \o sock
    IN IF first
       THEN [ret |-> TRUE, event |-> Head(buf), buf |-> buf1, sock |-> sock]
       ELSE IF sock # <<>>
            THEN [ret |-> parse_event_line(Head(buf2)), event |-> Head(buf2),
                  buf |-> Tail(buf2), sock |-> <<>>]
            ELSE [ret |-> FALSE, event |-> [type |-> "unknown", address |-> NULL],
                  buf |-> buf1, sock |-> sock]

(***************************************************************************)
(* State.                                                                  *)
(***************************************************************************)
VARIABLES
    ses,           \* the session's globals
    pc,            \* where wayland_loop_with_ipc stands
    list_changed,  \* process_hypr_events' local
    wlQueue,       \* display events read and not yet dispatched
    wlSock,        \* display events the compositor has sent
    evbuf,         \* s_event_buffer
    evsock,        \* event lines the compositor has written
    ipcq,          \* helper connections waiting in the listen backlog
    world,         \* the compositor's windows, most recently focused first
    env,           \* environment steps taken
    last,          \* what the last step did
    anchor_closed, \* a closewindow event has cleared the anchor
    el,            \* the election: processes and the runtime directory
    wire,          \* one command sent by a helper and read by the session
    rq,            \* one request to the window directory
    fc,            \* one call of hypr_ipc_focus_client
    srt,           \* one call of hypr_ipc_sort_clients_by_focus
    pe,            \* one call of parse_event_line on an openwindow line
    cu,            \* calls of switcher_ipc_cleanup in one process
    ls,            \* one call of switcher_ipc_listen
    inp,           \* the keyboard listener and the one-shot queries of input.c
    pl,            \* the poll section of the loop, call by call (SpecPoll)
    rf,            \* a refresh step by step inside the loop (SpecRefresh)
    sd,            \* wayland_shutdown statement by statement (SpecShutdown)
    ac,            \* helpers' connections beside process_ipc_commands (SpecAccept)
    er             \* hypr_events_read byte by byte (SpecReader)

vars == <<ses, pc, list_changed, wlQueue, wlSock, evbuf, evsock, ipcq, world,
          env, last, anchor_closed, el, wire, rq, fc, srt, pe, cu, ls, inp, pl, rf, sd, ac, er>>

loopVars == <<ses, pc, list_changed, wlQueue, wlSock, evbuf, evsock, ipcq,
              world, env, last, anchor_closed>>

\* What the session loop leaves alone.
aside == <<el, wire, rq, fc, srt, pe, cu, ls, inp, pl, rf, sd, ac, er>>

sessionVars == <<loopVars, wire, rq, fc, srt, pe, cu, ls, inp, pl, rf, sd, ac, er>>

protoVars == <<loopVars, el, rq, fc, srt, pe, cu, ls, inp, pl, rf, sd, ac, er>>

requestVars == <<loopVars, el, wire, fc, srt, pe, cu, ls, inp, pl, rf, sd, ac, er>>

focusVars == <<loopVars, el, wire, rq, srt, pe, cu, ls, inp, pl, rf, sd, ac, er>>

sortVars == <<loopVars, el, wire, rq, fc, pe, cu, ls, inp, pl, rf, sd, ac, er>>

parseVars == <<loopVars, el, wire, rq, fc, srt, cu, ls, inp, pl, rf, sd, ac, er>>

cleanupVars == <<loopVars, el, wire, rq, fc, srt, pe, ls, inp, pl, rf, sd, ac, er>>

listenVars == <<loopVars, el, wire, rq, fc, srt, pe, cu, inp, pl, rf, sd, ac, er>>

inputVars == <<loopVars, el, wire, rq, fc, srt, pe, cu, ls, pl, rf, sd, ac, er>>
pollVars == <<loopVars, el, wire, rq, fc, srt, pe, cu, ls, inp, rf, sd, ac, er>>
refreshVars == <<loopVars, el, wire, rq, fc, srt, pe, cu, ls, inp, pl, sd, ac, er>>
shutVars == <<loopVars, el, wire, rq, fc, srt, pe, cu, ls, inp, pl, rf, ac, er>>
acceptVars == <<loopVars, el, wire, rq, fc, srt, pe, cu, ls, inp, pl, rf, sd, er>>
readerVars == <<loopVars, el, wire, rq, fc, srt, pe, cu, ls, inp, pl, rf, sd, ac>>

\* What a step of the session did: the operation, whether it asked for the
\* directory, the records it handed to hypr_ipc_focus_client and the answer,
\* and the selection a refresh started from or the anchor a cancel started
\* from, and the lines a read of the event socket consumed without an
\* event.
Did(op, fetch, focus) ==
    [op |-> op, fetch |-> fetch, focus |-> focus, rc |-> 0,
     index |-> NONE, address |-> NULL, skipped |-> 0]

\* hypr_ipc_focus_client answers 0 or -1 (every strategy failed).
Focused(op, focus) ==
    IF focus = <<>> THEN {Did(op, FALSE, focus)}
    ELSE {[Did(op, FALSE, focus) EXCEPT !.rc = rc] : rc \in {0, -1}}

Restored(op, s) ==
    {[d EXCEPT !.index = s.g_initial_focus_index,
               !.address = s.g_initial_focus_address] :
        d \in Focused(op, wayland_restore_initial_focus(s))}

DisplayEvents == {"configure", "closed", "key_escape", "key_tab_alt",
                  "key_alt_release", "leave", "leave_alt", "key_shift_press"}

Procs == 1..NumProc

\* No command in flight, no request under way.
WireIdle == [pc |-> "off", command |-> <<>>, msg |-> <<>>, conn |-> <<>>,
             rc |-> 0, got |-> <<>>, cmd |-> "SWITCHER_CMD_TYPE_NONE"]

RqIdle == [pc |-> "off"]

FcIdle == [pc |-> "off"]

SrtIdle == [pc |-> "off"]

PeIdle == [pc |-> "off"]

CuIdle == [pc |-> "off"]

LsIdle == [pc |-> "off"]

InpIdle == [pc |-> "off"]

PlIdle == [pc |-> "off"]

RfIdle == [pc |-> "off"]

SdIdle == [pc |-> "off"]

AcIdle == [pc |-> "off"]

ErIdle == [pc |-> "off"]

\* No invocation started, no socket file.
ElIdle == [pcs |-> [p \in Procs |-> "off"],
           command |-> [p \in Procs |-> "CYCLE"],
           file |-> 0,
           listening |-> {},
           solo |-> [p \in Procs |-> FALSE],
           healed |-> [p \in Procs |-> FALSE],
           helper |-> [p \in Procs |-> FALSE],
           writes |-> [p \in Procs |-> 0],
           frames |-> [p \in Procs |-> 0]]

Init ==
    /\ \E evfd \in BOOLEAN : ses = InitSession(evfd)
    /\ pc = "events"
    /\ list_changed = FALSE
    /\ wlQueue = <<>>
    /\ wlSock = <<>>
    /\ evbuf = <<>>
    /\ evsock = <<>>
    /\ ipcq = <<>>
    /\ world \in InitWorlds
    /\ env = 0
    /\ last = Did("init", FALSE, <<>>)
    /\ anchor_closed = FALSE
    /\ el = ElIdle
    /\ er = ErIdle
    /\ ac = AcIdle
    /\ sd = SdIdle
    /\ rf = RfIdle
    /\ pl = PlIdle
    /\ inp = InpIdle
    /\ ls = LsIdle
    /\ cu = CuIdle
    /\ pe = PeIdle
    /\ srt = SrtIdle
    /\ wire = WireIdle
    /\ rq = RqIdle
    /\ fc = FcIdle

(***************************************************************************)
(* The environment.                                                        *)
(***************************************************************************)
\* What the environment writes waits in a socket until the loop reads it, so
\* a write commutes with every step of the loop but the read of what it
\* changes: each write is taken right before such a step (the display socket
\* is read at "poll", the backlog at "ipc", the event socket at "events", the
\* directory by a due refresh and by the configure listener).
WorldRead ==
    \/ pc = "events"
    \/ pc = "refresh" /\ ses.g_clients_dirty
    \/ pc = "dispatch" /\ wlQueue # <<>> /\ Head(wlQueue) = "configure"

\* The compositor sends a display event (layer-surface or keyboard).  Its
\* answer to the surface's first commit (create_layer_surface, line 598) is
\* the first configure, which the protocol owes and the budget of the
\* environment does not count.
EnvDisplay ==
    /\ env < MaxEnv /\ pc = "poll"
    /\ \E tok \in DisplayEvents :
          /\ wlSock' = Append(wlSock, tok)
          /\ env' = IF tok = "configure" /\ ~ses.configured /\ wlSock = <<>>
                    THEN env ELSE env + 1
    /\ UNCHANGED <<ses, pc, list_changed, wlQueue, evbuf, evsock, ipcq, world, aside, last, anchor_closed>>

\* The event socket carries a line iff the session is connected to it.
Emit(line) ==
    IF ses.g_hypr_events_fd
    THEN evsock' = Append(evsock, line)
    ELSE UNCHANGED evsock

\* A window opens, with the lowest free address, and takes the focus or
\* does not (it is then the least recently focused).
EnvOpenWindow ==
    /\ env < MaxEnv /\ WorldRead
    /\ \E a \in {x \in Addr \ Range(world) : \A y \in Addr \ Range(world) : x <= y},
          i \in {1, Len(world) + 1} :
          world' = InsertAt(world, i, a)
    /\ Emit([type |-> "openwindow", address |-> NULL])
    /\ env' = env + 1
    /\ UNCHANGED <<ses, pc, list_changed, wlQueue, wlSock, evbuf, ipcq, aside, last, anchor_closed>>

EnvCloseWindow ==
    /\ env < MaxEnv /\ WorldRead
    /\ \E i \in 1..Len(world) :
          /\ world' = RemoveAt(world, i)
          /\ Emit([type |-> "closewindow", address |-> world[i]])
    /\ env' = env + 1
    /\ UNCHANGED <<ses, pc, list_changed, wlQueue, wlSock, evbuf, ipcq, aside, last, anchor_closed>>

\* Another window takes the focus (activewindow), a window moves
\* (movewindow), or the compositor writes a line of another kind.
EnvOtherEvent ==
    /\ env < MaxEnv /\ WorldRead /\ ses.g_hypr_events_fd
    /\ \/ \E i \in 2..Len(world) :
             /\ world' = <<world[i]>> \o RemoveAt(world, i)
             /\ Emit([type |-> "activewindow", address |-> NULL])
       \/ \E t \in {"movewindow", "unknown", "malformed"} :
             /\ Emit([type |-> t, address |-> NULL])
             /\ UNCHANGED world
    /\ env' = env + 1
    /\ UNCHANGED <<ses, pc, list_changed, wlQueue, wlSock, evbuf, ipcq, aside, last, anchor_closed>>

\* A helper invocation connects and sends its frame.
EnvHelper ==
    /\ env < MaxEnv /\ pc = "ipc"
    /\ \E f \in Frames : ipcq' = Append(ipcq, f)
    /\ env' = env + 1
    /\ UNCHANGED <<ses, pc, list_changed, wlQueue, wlSock, evbuf, evsock, world, aside, last, anchor_closed>>

(***************************************************************************)
(* wayland_loop_with_ipc (wayland.c 742-903), one call or check per step.  *)
(* wl_display_dispatch_pending at the top of the loop finds its queue      *)
(* empty: events are queued by wl_display_read_events alone, which the     *)
(* loop follows at once by a dispatch of all of them.                      *)
(***************************************************************************)
\* process_hypr_events followed by the commands at once, dirty or not.
AfterEvents_no_refresh(s) == "ipc"

\* Lines 779-782: the refresh is the next step when the sequence is dirty;
\* when it is not the loop is at process_ipc_commands.
AfterEvents(s) == IF s.g_clients_dirty THEN "refresh" ELSE "ipc"

\* process_hypr_events: one hypr_events_read and the switch on its event;
\* after the last one the dirty flag is raised.
ProcessHyprEvents ==
    /\ pc = "events" /\ ses.display
    /\ IF ~ses.g_hypr_events_fd
       THEN /\ pc' = AfterEvents(ses)
            /\ last' = Did("no_events", FALSE, <<>>)
            /\ UNCHANGED <<ses, list_changed, evbuf, evsock, anchor_closed>>
       ELSE LET r == hypr_events_read(evbuf, evsock)
                anchor == /\ r.event.type = "closewindow"
                          /\ ses.g_initial_focus_address # NULL
                          /\ ses.g_initial_focus_address = r.event.address
                consumed == (Len(evbuf) + Len(evsock)) - (Len(r.buf) + Len(r.sock))
            IN /\ evbuf' = r.buf
               /\ evsock' = r.sock
               /\ IF r.ret
                  THEN /\ list_changed' =
                            (list_changed \/ r.event.type \in {"openwindow", "closewindow"})
                       /\ ses' = IF anchor
                                 THEN [ses EXCEPT !.g_initial_focus_address = NULL,
                                                  !.g_initial_focus_index = NONE]
                                 ELSE ses
                       /\ pc' = "events"
                       /\ last' = [Did(r.event.type, FALSE, <<>>)
                                     EXCEPT !.skipped = consumed - 1]
                  ELSE /\ list_changed' = FALSE
                       /\ ses' = [ses EXCEPT !.g_clients_dirty = @ \/ list_changed]
                       /\ pc' = AfterEvents(ses')
                       /\ last' = [Did("events_done", FALSE, <<>>)
                                     EXCEPT !.skipped = consumed]
               /\ anchor_closed' = (anchor_closed \/ (r.ret /\ anchor))
    /\ UNCHANGED <<wlQueue, wlSock, ipcq, world, env, aside>>

\* The directory answers, or fails to; a failure is a step of the
\* environment and counts as one.
FetchOutcomes == IF env < MaxEnv THEN BOOLEAN ELSE {TRUE}

\* if (g_clients_dirty) refresh_client_list();
Refresh ==
    /\ pc = "refresh"
    /\ ses.g_clients_dirty
    /\ \E ok \in FetchOutcomes :
          /\ ses' = refresh_client_list(ses, hypr_ipc_get_clients_basic(world, ok))
          /\ last' = [Did(IF ok THEN "refresh" ELSE "refresh_failed", TRUE, <<>>)
                         EXCEPT !.index = ses.g_selection_index,
                                !.address = ses.g_selected_address]
          /\ env' = IF ok THEN env ELSE env + 1
    /\ pc' = "ipc"
    /\ UNCHANGED <<list_changed, wlQueue, wlSock, evbuf, evsock, ipcq, world, aside, anchor_closed>>

\* The loop without the break of line 787: it goes on to the next command.
after_terminal_command_continue == "ipc"

\* process_ipc_commands 706-716 and the loop's line 787: after COMMIT or
\* CANCEL the call returns and if (!display) break leaves the loop.
after_terminal_command == "exit"

\* input_alt_released() and input_shift_is_down(), which wayland.c 805 and 812
\* call and input.c does not hold: the one-shot modifier-released signal and
\* the shift-held level of the design (section 4.4).
input_alt_released(s) == s.g_alt_released_flag

input_shift_is_down(s) == s.g_shift_down

\* Lines 790-817, the input and lifecycle checks in their order: focus lost,
\* escape, the chord, modifier released.  A check whose signal is not raised
\* changes nothing; the loop stands at the first check after check number
\* done whose signal is raised, or at the poll wait.
NextCheck(s, done) ==
    IF done < 1 /\ s.g_focus_lost_flag THEN "focus_lost"
    ELSE IF done < 2 /\ s.g_esc_flag THEN "escape"
    ELSE IF done < 3 /\ s.g_alt_tab_flag THEN "alt_tab"
    ELSE IF done < 4 /\ input_alt_released(s) THEN "alt_released"
    ELSE "poll"

\* process_ipc_commands: one accept, read and dispatch; an empty backlog
\* ends the call.
ProcessIpcCommands ==
    /\ pc = "ipc"
    /\ IF ipcq = <<>>
       THEN /\ pc' = NextCheck(ses, 0)
            /\ last' = Did("no_command", FALSE, <<>>)
            /\ UNCHANGED <<ses, ipcq>>
       ELSE LET cmd == accepted_command[Head(ipcq)]
            IN /\ ipcq' = Tail(ipcq)
               /\ CASE cmd = "SWITCHER_CMD_TYPE_CYCLE" ->
                         /\ ses' = cycle_forward(ses)
                         /\ pc' = "ipc"
                         /\ last' = Did("ipc_cycle", FALSE, <<>>)
                    [] cmd = "SWITCHER_CMD_TYPE_CYCLE_BACKWARD" ->
                         /\ ses' = cycle_backward(ses)
                         /\ pc' = "ipc"
                         /\ last' = Did("ipc_cycle_backward", FALSE, <<>>)
                    [] cmd = "SWITCHER_CMD_TYPE_COMMIT" ->
                         /\ ses' = wayland_shutdown(ses)
                         /\ pc' = after_terminal_command
                         /\ last' \in Focused("ipc_commit", wayland_focus_selected(ses))
                    [] cmd = "SWITCHER_CMD_TYPE_CANCEL" ->
                         /\ ses' = wayland_shutdown(ses)
                         /\ pc' = after_terminal_command
                         /\ last' \in Restored("ipc_cancel", ses)
                    [] OTHER ->
                         /\ UNCHANGED ses
                         /\ pc' = "ipc"
                         /\ last' = Did("ipc_ignored", FALSE, <<>>)
    /\ UNCHANGED <<list_changed, wlQueue, wlSock, evbuf, evsock, world, env, aside, anchor_closed>>

\* if (input_focus_lost()) { wayland_focus_selected; wayland_shutdown; break; }
CheckFocusLost ==
    /\ pc = "focus_lost"
    /\ ses.g_focus_lost_flag
    /\ ses' = wayland_shutdown(ses)
    /\ pc' = "exit"
    /\ last' \in Focused("focus_lost", wayland_focus_selected(ses))
    /\ UNCHANGED <<list_changed, wlQueue, wlSock, evbuf, evsock, ipcq, world, env, aside, anchor_closed>>

\* if (input_escape_pressed()) { wayland_restore_initial_focus; wayland_shutdown; break; }
CheckEscape ==
    /\ pc = "escape"
    /\ ses.g_esc_flag
    /\ ses' = wayland_shutdown(ses)
    /\ pc' = "exit"
    /\ last' \in Restored("escape", ses)
    /\ UNCHANGED <<list_changed, wlQueue, wlSock, evbuf, evsock, ipcq, world, env, aside, anchor_closed>>

\* if (input_alt_tab_triggered()) cycle, backward when shift is down
CheckAltTab ==
    /\ pc = "alt_tab"
    /\ ses.g_alt_tab_flag
    /\ LET s1 == [ses EXCEPT !.g_alt_tab_flag = FALSE]
       IN /\ ses' = IF g_client_count(s1) > 0
                    THEN (IF input_shift_is_down(s1) THEN cycle_backward(s1)
                          ELSE cycle_forward(s1))
                    ELSE s1
          /\ last' = Did(IF input_shift_is_down(ses) THEN "chord_backward"
                         ELSE "chord_forward",
                         FALSE, <<>>)
    /\ pc' = NextCheck(ses', 3)
    /\ UNCHANGED <<list_changed, wlQueue, wlSock, evbuf, evsock, ipcq, world, env, aside, anchor_closed>>

\* if (input_alt_released()) { wayland_focus_selected; wayland_shutdown; break; }
CheckAltReleased ==
    /\ pc = "alt_released"
    /\ input_alt_released(ses)
    /\ ses' = wayland_shutdown(ses)
    /\ pc' = "exit"
    /\ last' \in Focused("alt_released", wayland_focus_selected(ses))
    /\ UNCHANGED <<list_changed, wlQueue, wlSock, evbuf, evsock, ipcq, world, env, aside, anchor_closed>>

\* redraw_overlay
redraw_overlay(s) == [s EXCEPT !.g_needs_redraw = FALSE]

\* Lines 819-901: redraw, prepare_read, flush, poll.  The display descriptor
\* is readable iff the compositor has sent something; a lost connection
\* (flush, poll or read failure, POLLERR/POLLHUP) shuts the session down.
Poll ==
    /\ pc = "poll"
    /\ LET s1 == IF ses.g_needs_redraw THEN redraw_overlay(ses) ELSE ses
       IN \/ /\ wlSock # <<>>
             /\ wlQueue' = wlSock
             /\ wlSock' = <<>>
             /\ ses' = s1
             /\ pc' = "dispatch"
             /\ last' = Did("read_events", FALSE, <<>>)
          \/ /\ wlSock = <<>>
             /\ ses' = s1
             /\ pc' = "events"
             /\ last' = Did("poll_idle", FALSE, <<>>)
             /\ UNCHANGED <<wlQueue, wlSock>>
          \/ /\ ses' = wayland_shutdown(s1)
             /\ pc' = "exit"
             /\ last' = Did("fatal_io", FALSE, <<>>)
             /\ UNCHANGED <<wlQueue, wlSock>>
    /\ UNCHANGED <<list_changed, evbuf, evsock, ipcq, world, env, aside, anchor_closed>>

\* The signals behind input_alt_released() and input_shift_is_down(), which
\* input.c does not hold: releasing the modifier raises the one-shot
\* modifier-released signal, pressing shift raises the shift-held level.
modifier_signals(s, tok) ==
    CASE tok = "key_alt_release" -> [s EXCEPT !.g_alt_released_flag = TRUE]
      [] tok = "key_shift_press" -> [s EXCEPT !.g_shift_down = TRUE]
      [] OTHER -> s

\* The keyboard listener (input.c 124-206) for one display event.
keyboard_event(s, tok) ==
    CASE tok = "key_escape" -> [s EXCEPT !.g_esc_flag = TRUE]
      [] tok = "key_tab_alt" -> [s EXCEPT !.g_alt_tab_flag = TRUE]
      [] tok = "leave" -> [s EXCEPT !.g_focus_lost_flag = TRUE]
      [] tok = "leave_alt" -> [s EXCEPT !.g_focus_lost_flag = TRUE,
                                        !.g_alt_tab_flag = TRUE]
      [] OTHER -> modifier_signals(s, tok)

\* wl_display_dispatch_pending (line 858): the listener of one queued event.
\* layer_surface_closed shuts down; the proxies are destroyed, so nothing
\* queued behind it is delivered, and while (display) ends the loop.  The
\* shutdown disconnects the display inside its own dispatch, which goes on to
\* use the freed display: the process either carries on to the end of the
\* loop or dies there ("crashed").
Dispatch ==
    /\ pc = "dispatch"
    /\ wlQueue # <<>>
    /\ LET tok == Head(wlQueue)
           more == IF Tail(wlQueue) = <<>> THEN "events" ELSE "dispatch"
       IN CASE tok = "configure" ->
                 \E ok \in FetchOutcomes :
                   /\ ses' = layer_surface_configure(
                                ses, hypr_ipc_get_clients_basic(world, ok))
                   /\ env' = IF ok THEN env ELSE env + 1
                   /\ wlQueue' = Tail(wlQueue)
                   /\ pc' = more
                   /\ last' = Did(IF ok THEN "configure" ELSE "configure_failed",
                                  TRUE, <<>>)
            [] tok = "closed" ->
                   /\ ses' = wayland_shutdown(ses)
                   /\ wlQueue' = <<>>
                   /\ pc' \in {"exit", "crashed"}
                   /\ last' = Did("closed", FALSE, <<>>)
                   /\ UNCHANGED env
            [] OTHER ->
                   /\ ses' = keyboard_event(ses, tok)
                   /\ wlQueue' = Tail(wlQueue)
                   /\ pc' = more
                   /\ last' = Did("key", FALSE, <<>>)
                   /\ UNCHANGED env
    /\ UNCHANGED <<list_changed, wlSock, evbuf, evsock, ipcq, world, aside, anchor_closed>>

\* main() after the loop: switcher_ipc_cleanup closes the listening socket.
Exit ==
    /\ pc = "exit"
    /\ pc' = "done"
    /\ ipcq' = <<>>
    /\ last' = Did("cleanup", FALSE, <<>>)
    /\ UNCHANGED <<ses, list_changed, wlQueue, wlSock, evbuf, evsock, world, env, aside, anchor_closed>>

Next ==
    \/ EnvDisplay \/ EnvOpenWindow \/ EnvCloseWindow \/ EnvOtherEvent \/ EnvHelper
    \/ ProcessHyprEvents \/ Refresh \/ ProcessIpcCommands
    \/ CheckFocusLost \/ CheckEscape \/ CheckAltTab \/ CheckAltReleased
    \/ Poll \/ Dispatch \/ Exit

Spec == Init /\ [][Next]_vars

(***************************************************************************)
(* The election (main.c 71-169, switcher_ipc.c): NumProc invocations of    *)
(* main() on one runtime directory, one system call per step.              *)
(*   el.file       the process whose bind created the socket file, 0 when  *)
(*                 the path holds no file                                  *)
(*   el.listening  the processes whose socket accepts connections          *)
(*   el.pcs[p]     where invocation p stands; "main" from the return of    *)
(*                 switcher_ipc_listen to the end of the event loop        *)
(*   el.solo[p]    no other invocation has run since p started             *)
(*   el.healed[p]  p has removed a socket file that refused its connection *)
(*   el.helper[p]  switcher_ipc_try_connect has returned a connection to p *)
(*   el.writes[p]  the write() calls p has made on that connection         *)
(*   el.frames[p]  the whole frames those calls have put on it             *)
(***************************************************************************)
Commands == {"CYCLE", "CYCLE_BACKWARD", "COMMIT", "CANCEL"}

\* main() that becomes the main instance whatever the command.
NoInstance_listen(p) == "listen_unlink"

\* main() 127-141 once try_connect has reported no instance.
NoInstance(p) ==
    IF el.command[p] \in {"COMMIT", "CANCEL"} THEN "exit_0" ELSE "listen_unlink"

\* The invocations that are not running: not started, killed or returned.
Finished == {"off", "dead", "exit_0", "exit_1", "sigpipe"}

\* An invocation starts with its command-line flag.
Start(p) ==
    /\ el.pcs[p] = "off"
    /\ \E c \in Commands :
          el' = [el EXCEPT !.pcs[p] = "stat", !.command[p] = c,
                           !.solo = [q \in Procs |->
                                       /\ q = p
                                       /\ \A r \in Procs \ {p} : el.pcs[r] \in Finished]]
    /\ UNCHANGED sessionVars

\* switcher_ipc_try_connect 98-103: stat(s_socket_path)
TryConnectStat(p) ==
    /\ el.pcs[p] = "stat"
    /\ el' = [el EXCEPT !.pcs[p] = IF el.file = 0 THEN NoInstance(p) ELSE "connect"]
    /\ UNCHANGED sessionVars

\* switcher_ipc_try_connect that reports a refused connection as an error.
TryConnectConnect_error(p) ==
    /\ el.pcs[p] = "connect"
    /\ el' = [el EXCEPT !.pcs[p] = IF el.file \in el.listening THEN "send"
                                   ELSE "exit_1",
                         !.helper[p] = el.file \in el.listening]
    /\ UNCHANGED sessionVars

\* switcher_ipc_try_connect 117-126: connect() reaches the socket behind the
\* file iff that socket is listening.
TryConnectConnect(p) ==
    /\ el.pcs[p] = "connect"
    /\ el' = [el EXCEPT !.pcs[p] = IF el.file \in el.listening THEN "send"
                                   ELSE "unlink_stale",
                         !.helper[p] = el.file \in el.listening]
    /\ UNCHANGED sessionVars

\* switcher_ipc_try_connect 119-122: unlink(s_socket_path); return -1
TryConnectUnlink(p) ==
    /\ el.pcs[p] = "unlink_stale"
    /\ el' = [el EXCEPT !.file = 0, !.pcs[p] = NoInstance(p), !.healed[p] = TRUE]
    /\ UNCHANGED sessionVars

\* What the one write() of switcher_ipc_send (line 137) can come to: the
\* frame is taken whole; the call fails or is short; the peer has closed the
\* connection and SIGPIPE, which nothing in the program handles, ends the
\* process.
WriteOutcomes == {"written", "failed", "sigpipe"}

\* main() that goes on to become the main instance after its send.
HelperSend_listen(p) ==
    /\ el.pcs[p] = "send"
    /\ \E out \in WriteOutcomes :
          el' = [el EXCEPT !.pcs[p] = "listen_unlink",
                           !.writes[p] = @ + 1,
                           !.frames[p] = IF out = "written" THEN @ + 1 ELSE @]
    /\ UNCHANGED sessionVars

\* main() 108-125: helper mode, switcher_ipc_send (129-147), close and
\* return 1 when the send failed, 0 otherwise.
HelperSend(p) ==
    /\ el.pcs[p] = "send"
    /\ \E out \in WriteOutcomes :
          el' = [el EXCEPT !.pcs[p] = CASE out = "written" -> "exit_0"
                                        [] out = "failed" -> "exit_1"
                                        [] out = "sigpipe" -> "sigpipe",
                           !.writes[p] = @ + 1,
                           !.frames[p] = IF out = "written" THEN @ + 1 ELSE @]
    /\ UNCHANGED sessionVars

\* switcher_ipc_listen 155-171: mkdir, unlink(s_socket_path)
ListenUnlink(p) ==
    /\ el.pcs[p] = "listen_unlink"
    /\ el' = [el EXCEPT !.file = 0, !.pcs[p] = "bind"]
    /\ UNCHANGED sessionVars

\* switcher_ipc_listen 173-189: bind() fails when the path holds a file.
ListenBind(p) ==
    /\ el.pcs[p] = "bind"
    /\ el' = IF el.file = 0
             THEN [el EXCEPT !.file = p, !.pcs[p] = "listen"]
             ELSE [el EXCEPT !.pcs[p] = "exit_1"]
    /\ UNCHANGED sessionVars

\* switcher_ipc_listen 191-205: chmod, listen(), return fd
ListenListen(p) ==
    /\ el.pcs[p] = "listen"
    /\ el' = [el EXCEPT !.listening = @ \cup {p}, !.pcs[p] = "main"]
    /\ UNCHANGED sessionVars

\* The event loop ends; switcher_ipc_cleanup 271-274: close(listen_fd)
CleanupClose(p) ==
    /\ el.pcs[p] = "main"
    /\ el' = [el EXCEPT !.listening = @ \ {p}, !.pcs[p] = "cleanup_unlink"]
    /\ UNCHANGED sessionVars

\* switcher_ipc_cleanup 276-287: unlink(s_socket_path), rmdir
CleanupUnlink(p) ==
    /\ el.pcs[p] = "cleanup_unlink"
    /\ el' = [el EXCEPT !.file = 0, !.pcs[p] = "exit_0"]
    /\ UNCHANGED sessionVars

\* A main instance is killed: its socket goes, its file stays.
Crash(p) ==
    /\ el.pcs[p] = "main"
    /\ el' = [el EXCEPT !.listening = @ \ {p}, !.pcs[p] = "dead"]
    /\ UNCHANGED sessionVars

InitElect ==
    /\ ses = InitSession(FALSE)
    /\ pc = "done"
    /\ list_changed = FALSE
    /\ wlQueue = <<>>
    /\ wlSock = <<>>
    /\ evbuf = <<>>
    /\ evsock = <<>>
    /\ ipcq = <<>>
    /\ world = <<>>
    /\ env = 0
    /\ last = Did("init", FALSE, <<>>)
    /\ anchor_closed = FALSE
    /\ el = ElIdle
    /\ er = ErIdle
    /\ ac = AcIdle
    /\ sd = SdIdle
    /\ rf = RfIdle
    /\ pl = PlIdle
    /\ inp = InpIdle
    /\ ls = LsIdle
    /\ cu = CuIdle
    /\ pe = PeIdle
    /\ srt = SrtIdle
    /\ wire = WireIdle
    /\ rq = RqIdle
    /\ fc = FcIdle

NextElect ==
    \E p \in Procs :
       \/ Start(p) \/ TryConnectStat(p) \/ TryConnectConnect(p)
       \/ TryConnectUnlink(p) \/ HelperSend(p)
       \/ ListenUnlink(p) \/ ListenBind(p) \/ ListenListen(p)
       \/ CleanupClose(p) \/ CleanupUnlink(p) \/ Crash(p)

SpecElect == InitElect /\ [][NextElect]_vars

\* The main instances alive.
MainInstances == {p \in Procs : el.pcs[p] = "main"}

(***************************************************************************)
(* One command on the wire: a helper's switcher_ipc_send and the session's *)
(* switcher_ipc_read_command on the accepted connection.                   *)
(***************************************************************************)
MaxStr == 18        \* length of the longest command string

\* The command strings handed to send: the four commands, their prefixes,
\* and each of them followed by other characters.
ProtoStrings ==
    {SubSeq(b \o [i \in 1..MaxStr |-> "X"], 1, n) :
        b \in {SWITCHER_CMD_CYCLE, SWITCHER_CMD_CYCLE_BACKWARD,
               SWITCHER_CMD_COMMIT, SWITCHER_CMD_CANCEL},
        n \in 0..MaxStr}

InitProto ==
    /\ ses = InitSession(FALSE)
    /\ pc = "done"
    /\ list_changed = FALSE
    /\ wlQueue = <<>>
    /\ wlSock = <<>>
    /\ evbuf = <<>>
    /\ evsock = <<>>
    /\ ipcq = <<>>
    /\ world = <<>>
    /\ env = 0
    /\ last = Did("init", FALSE, <<>>)
    /\ anchor_closed = FALSE
    /\ el = ElIdle
    /\ er = ErIdle
    /\ ac = AcIdle
    /\ sd = SdIdle
    /\ rf = RfIdle
    /\ pl = PlIdle
    /\ inp = InpIdle
    /\ ls = LsIdle
    /\ cu = CuIdle
    /\ pe = PeIdle
    /\ srt = SrtIdle
    /\ \E c \in ProtoStrings : wire = [WireIdle EXCEPT !.pc = "send", !.command = c]
    /\ rq = RqIdle
    /\ fc = FcIdle

\* switcher_ipc_send 134-146: write() takes the whole buffer, a part of it,
\* or fails; anything but the whole is an error.
ProtoSend ==
    /\ wire.pc = "send"
    /\ \E written \in -1..SWITCHER_IPC_MSG_SIZE :
          LET msg == switcher_ipc_send(wire.command)
          IN wire' = [wire EXCEPT
                        !.pc = "read",
                        !.msg = msg,
                        !.conn = SubSeq(msg, 1, written),
                        !.rc = IF written # SWITCHER_IPC_MSG_SIZE THEN -1 ELSE 0]
    /\ UNCHANGED protoVars

\* switcher_ipc_read_command 238-268: read() obtains nothing, or the first
\* bytes of what the connection holds, SWITCHER_IPC_MSG_SIZE at most.
ProtoRead ==
    /\ wire.pc = "read"
    /\ \E nread \in 0..Len(wire.conn) :
          /\ nread <= SWITCHER_IPC_MSG_SIZE
          /\ wire' = [wire EXCEPT
                        !.pc = "done",
                        !.got = SubSeq(wire.conn, 1, nread),
                        !.cmd = switcher_ipc_read_command(SubSeq(wire.conn, 1, nread))]
    /\ UNCHANGED protoVars

NextProto == ProtoSend \/ ProtoRead

SpecProto == InitProto /\ [][NextProto]_vars

(***************************************************************************)
(* One request to the window directory: hypr_ipc_send_recv (ipc.c 46-145)  *)
(* beside the compositor at the other end of the connection.               *)
(*   rq.rest    what the compositor has still to write of its reply        *)
(*   rq.inq     the bytes that have arrived and are not read               *)
(*   rq.closed  the compositor has closed its end                          *)
(*   rq.depth   the tokener: brackets open in the document so far          *)
(*   rq.intr    interrupted system calls so far                            *)
(*   rq.ev      what the last poll() or read() reported                    *)
(***************************************************************************)
MaxDoc == 4         \* characters in a reply
MaxIntr == 2        \* interrupted system calls during one request

\* A reply is made of brackets and of a character no document holds.
Docs == UNION {[1..n -> {"[", "]", "x"}] : n \in 0..MaxDoc}

\* json_tokener_parse_ex on the tokener's state and one more chunk: success
\* with the document complete, continue, or an error.
RECURSIVE json_tokener_parse_ex(_, _)
json_tokener_parse_ex(depth, chunk) ==
    IF chunk = <<>> THEN [depth |-> depth, jerr |-> "json_tokener_continue"]
    ELSE IF Head(chunk) = "[" THEN json_tokener_parse_ex(depth + 1, Tail(chunk))
    ELSE IF Head(chunk) = "]" /\ depth > 1
         THEN json_tokener_parse_ex(depth - 1, Tail(chunk))
    ELSE IF Head(chunk) = "]" /\ depth = 1
         THEN [depth |-> 0, jerr |-> "json_tokener_success"]
    ELSE [depth |-> depth, jerr |-> "json_tokener_error"]

InitRequest ==
    /\ ses = InitSession(FALSE)
    /\ pc = "done"
    /\ list_changed = FALSE
    /\ wlQueue = <<>>
    /\ wlSock = <<>>
    /\ evbuf = <<>>
    /\ evsock = <<>>
    /\ ipcq = <<>>
    /\ world = <<>>
    /\ env = 0
    /\ last = Did("init", FALSE, <<>>)
    /\ anchor_closed = FALSE
    /\ el = ElIdle
    /\ er = ErIdle
    /\ ac = AcIdle
    /\ sd = SdIdle
    /\ rf = RfIdle
    /\ pl = PlIdle
    /\ inp = InpIdle
    /\ ls = LsIdle
    /\ cu = CuIdle
    /\ pe = PeIdle
    /\ srt = SrtIdle
    /\ wire = WireIdle
    /\ fc = FcIdle
    /\ \E doc \in Docs :
          rq = [pc |-> "start", rest |-> doc, inq |-> <<>>, closed |-> FALSE,
                depth |-> 0, intr |-> 0, ev |-> "none"]

\* The compositor writes the next bytes of its reply.
ReqPeerWrite ==
    /\ rq.pc \in {"poll", "read"}
    /\ ~rq.closed
    /\ \E k \in 1..Len(rq.rest) :
          rq' = [rq EXCEPT !.inq = @ \o SubSeq(rq.rest, 1, k),
                           !.rest = SubSeq(rq.rest, k + 1, Len(rq.rest))]
    /\ UNCHANGED requestVars

\* The compositor closes the connection, with its reply written or not.
ReqPeerClose ==
    /\ rq.pc \in {"poll", "read"}
    /\ ~rq.closed
    /\ rq' = [rq EXCEPT !.closed = TRUE, !.rest = <<>>]
    /\ UNCHANGED requestVars

\* Lines 47-74: open the socket, write the command, make the tokener.
ReqStart ==
    /\ rq.pc = "start"
    /\ \E ok \in BOOLEAN :
          rq' = [rq EXCEPT !.pc = IF ok THEN "poll" ELSE "fail",
                           !.ev = IF ok THEN "started" ELSE "start_failed"]
    /\ UNCHANGED requestVars

\* Lines 77-89: poll(&pfd, 1, 3000).  The descriptor is ready when bytes
\* wait or the peer has closed (POLLIN at end of file, POLLHUP); the timeout
\* expires only when it is not.
ReqPoll ==
    /\ rq.pc = "poll"
    /\ \/ /\ rq.inq # <<>> \/ rq.closed
          /\ rq' = [rq EXCEPT !.pc = "read", !.ev = "ready"]
       \/ /\ rq.inq = <<>> /\ ~rq.closed
          /\ rq' = [rq EXCEPT !.pc = "fail", !.ev = "timeout"]
       \/ /\ rq.intr < MaxIntr
          /\ rq' = [rq EXCEPT !.intr = @ + 1, !.ev = "poll_eintr"]
       \/ rq' = [rq EXCEPT !.pc = "fail", !.ev = "poll_error"]
    /\ UNCHANGED requestVars

\* Lines 91-127: one read() of the inner loop and what follows from it.
ReqRead ==
    /\ rq.pc = "read"
    /\ \/ /\ rq.inq # <<>>
          /\ LET r == json_tokener_parse_ex(rq.depth, rq.inq)
             IN rq' = [rq EXCEPT
                         !.inq = <<>>,
                         !.depth = r.depth,
                         !.ev = r.jerr,
                         !.pc = CASE r.jerr = "json_tokener_success" -> "ok"
                                  [] r.jerr = "json_tokener_continue" -> "read"
                                  [] OTHER -> "fail"]
       \/ /\ rq.inq = <<>> /\ rq.closed
          /\ rq' = [rq EXCEPT !.pc = "poll", !.ev = "eof"]
       \/ /\ rq.inq = <<>> /\ ~rq.closed
          /\ rq' = [rq EXCEPT !.pc = "poll", !.ev = "eagain"]
       \/ /\ rq.intr < MaxIntr
          /\ rq' = [rq EXCEPT !.intr = @ + 1, !.ev = "read_eintr"]
       \/ rq' = [rq EXCEPT !.pc = "fail", !.ev = "read_error"]
    /\ UNCHANGED requestVars

\* The steps of hypr_ipc_send_recv.
ReqProgram == ReqStart \/ ReqPoll \/ ReqRead

NextRequest == ReqPeerWrite \/ ReqPeerClose \/ ReqStart \/ ReqPoll \/ ReqRead

\* The process goes on running: a call that can take a step takes one.
SpecRequest == InitRequest /\ [][NextRequest]_vars /\ WF_vars(ReqProgram)

(***************************************************************************)
(* Properties of the session and of the election.                          *)
(***************************************************************************)
\* A step of the program, as opposed to one of its environment, which
\* writes to a socket or changes the windows.
ProgramStep ==
    /\ Len(wlSock') <= Len(wlSock)
    /\ Len(evsock') <= Len(evsock)
    /\ Len(ipcq') <= Len(ipcq)
    /\ world' = world

\* The addresses of the window sequence.
Addresses(s) == {s.g_clients[i].address : i \in 1..Len(s.g_clients)}

\* C1: in every reachable state the cursor is a valid index of the window
\* sequence when the sequence is non-empty, and is none (-1) when it is empty.
C1_CursorInRange ==
    IF Len(ses.g_clients) = 0
    THEN ses.g_selection_index = NONE
    ELSE ses.g_selection_index \in 0..(Len(ses.g_clients) - 1)

\* The keyboard chord has wrapped the cursor from the last record to the first.
C1_Witness ==
    /\ last.op = "chord_forward"
    /\ Len(ses.g_clients) >= 2
    /\ ses.g_selection_index = 0

\* C2: whatever the interleaving of the invocations' tryConnect and listen,
\* at most one live main instance exists on a runtime directory.
C2_AtMostOneMain == Cardinality(MainInstances) <= 1

\* A refresh that rebuilt the sequence from a successful directory fetch.
RefreshStep ==
    /\ pc = "refresh"
    /\ ses.g_clients_dirty
    /\ last'.op = "refresh"

\* C3: after a successful refresh, when the address selected before the
\* refresh occurs in the new sequence, the cursor is the index of that address
\* and the selected address is still that address.
C3_SelectionFollowsAddress ==
    [][RefreshStep =>
         \A i \in 1..Len(ses'.g_clients) :
            ses'.g_clients[i].address = ses.g_selected_address =>
               /\ ses'.g_selection_index = i - 1
               /\ ses'.g_selected_address = ses.g_selected_address]_vars

\* A refresh has found the selected window at another index than before.
C3_Witness ==
    /\ last.op = "refresh"
    /\ last.address # NULL
    /\ last.index # NONE
    /\ ses.g_selected_address = last.address
    /\ ses.g_selection_index # last.index
    /\ ses.g_selection_index # NONE

Clamp(i, n) == IF i < 0 THEN 0 ELSE IF i >= n THEN n - 1 ELSE i

\* C4: after a successful refresh, when the address selected before the
\* refresh is absent from the new non-empty sequence, the cursor is the
\* previous cursor clamped into [0, new length).
C4_SelectionClamped ==
    [][(/\ RefreshStep
        /\ ses'.g_clients # <<>>
        /\ ses.g_selected_address \notin Addresses(ses'))
         => ses'.g_selection_index =
               Clamp(ses.g_selection_index, Len(ses'.g_clients))]_vars

\* The selected window was the last of the sequence and has gone: the cursor
\* has been clamped onto the new last record.
C4_Witness ==
    /\ last.op = "refresh"
    /\ last.address # NULL
    /\ last.address \notin Addresses(ses)
    /\ Len(ses.g_clients) >= 2
    /\ last.index >= Len(ses.g_clients)
    /\ ses.g_selection_index = Len(ses.g_clients) - 1

\* The steps that run cycle_forward and cycle_backward: a CYCLE or
\* CYCLE_BACKWARD command, or the keyboard chord without or with shift.
CycleForwardStep ==
    /\ ProgramStep
    /\ \/ /\ pc = "ipc" /\ ipcq # <<>>
          /\ accepted_command[Head(ipcq)] = "SWITCHER_CMD_TYPE_CYCLE"
       \/ /\ pc = "alt_tab" /\ ses.g_alt_tab_flag /\ ~ses.g_shift_down

CycleBackwardStep ==
    /\ ProgramStep
    /\ \/ /\ pc = "ipc" /\ ipcq # <<>>
          /\ accepted_command[Head(ipcq)] = "SWITCHER_CMD_TYPE_CYCLE_BACKWARD"
       \/ /\ pc = "alt_tab" /\ ses.g_alt_tab_flag /\ ses.g_shift_down

\* C5: on a non-empty sequence cycling forward from the last index gives 0
\* and otherwise adds 1, cycling backward from 0 gives the last index and
\* otherwise subtracts 1; on a sequence of one record both leave the cursor,
\* the selected address and the redraw flag unchanged.
C5_CycleWraps ==
    [][LET n == Len(ses.g_clients)
           i == ses.g_selection_index
       IN /\ (CycleForwardStep /\ n > 0) =>
                ses'.g_selection_index = IF i = n - 1 THEN 0 ELSE i + 1
          /\ (CycleBackwardStep /\ n > 0) =>
                ses'.g_selection_index = IF i = 0 THEN n - 1 ELSE i - 1
          /\ ((CycleForwardStep \/ CycleBackwardStep) /\ n = 1) =>
                /\ ses'.g_selection_index = i
                /\ ses'.g_selected_address = ses.g_selected_address
                /\ ses'.g_needs_redraw = ses.g_needs_redraw]_vars

\* A CYCLE_BACKWARD command has wrapped the cursor from 0 to the last record.
C5_Witness ==
    /\ last.op = "ipc_cycle_backward"
    /\ Len(ses.g_clients) >= 2
    /\ ses.g_selection_index = Len(ses.g_clients) - 1

\* The SessionAnchor.
Anchor(s) == <<s.g_initial_focus_index, s.g_initial_focus_address>>

\* process_hypr_events takes a closewindow event whose address is the
\* anchor's.
AnchorCloseStep ==
    LET r == hypr_events_read(evbuf, evsock)
    IN /\ pc = "events"
       /\ ses.g_hypr_events_fd
       /\ r.ret
       /\ r.event.type = "closewindow"
       /\ ses.g_initial_focus_address # NULL
       /\ r.event.address = ses.g_initial_focus_address
       /\ evbuf' = r.buf

\* C6: once the first configure has set the anchor, the anchor of an Active
\* session changes only when a CloseWindow event for the anchor address is
\* processed, which clears both fields; no other event, command, refresh or
\* later configure notification changes it.
C6_AnchorSetOnce ==
    [][(/\ ses.configured
        /\ ses.display /\ ses'.display
        /\ Anchor(ses') # Anchor(ses))
         => (AnchorCloseStep /\ Anchor(ses') = <<NONE, NULL>>)]_vars

\* The configure listener has run with a successful directory fetch.
ConfigureStep ==
    /\ ProgramStep
    /\ pc = "dispatch"
    /\ wlQueue # <<>>
    /\ Head(wlQueue) = "configure"
    /\ last'.op = "configure"

\* C7: when configuring completes with a successful fetch of n windows, the
\* sequence holds them most recently focused first, the anchor is the record
\* at index 0 (index and address), the cursor is 1 if n >= 2, 0 if n = 1 and
\* none if n = 0, and the selected address is the address at the cursor.
C7_ConfigureSelection ==
    [][ConfigureStep =>
         LET n == Len(ses'.g_clients)
             c == ses'.g_selection_index
         IN /\ n = Len(world)
            /\ \A i \in 1..n : /\ ses'.g_clients[i].address = world[i]
                               /\ ses'.g_clients[i].focusHistoryID = i - 1
            /\ n >= 1 => /\ ses'.g_initial_focus_index = 0
                         /\ ses'.g_initial_focus_address = ses'.g_clients[1].address
            /\ c = (IF n >= 2 THEN 1 ELSE IF n = 1 THEN 0 ELSE NONE)
            /\ n >= 1 => ses'.g_selected_address = ses'.g_clients[c + 1].address]_vars

\* A configure has fetched at least two windows that the directory listed
\* in another order than their focus order.
C7_Witness ==
    /\ last.op = "configure"
    /\ Len(ses.g_clients) >= 2
    /\ ses.g_clients[1].address > ses.g_clients[2].address
    /\ ses.g_selection_index = 1
    /\ ses.g_selected_address = ses.g_clients[2].address
    /\ ses.g_initial_focus_address = ses.g_clients[1].address

\* The operations that dispatch a command read from the control socket.
IpcDispatchOps ==
    {"ipc_cycle", "ipc_cycle_backward", "ipc_commit", "ipc_cancel", "ipc_ignored"}

\* C8: Terminated is absorbing: once the session is Terminated no later step
\* fetches the directory, dispatches an IPC command, changes the window
\* sequence, the cursor or the anchor, or issues a focus dispatch; the
\* session stays Terminated.
C8_TerminatedAbsorbing ==
    [][~ses.display =>
         /\ ~ses'.display
         /\ ses'.g_clients = ses.g_clients
         /\ ses'.g_selection_index = ses.g_selection_index
         /\ Anchor(ses') = Anchor(ses)
         /\ (last' # last => /\ ~last'.fetch
                             /\ last'.focus = <<>>
                             /\ last'.op \notin IpcDispatchOps)]_vars

\* The session has terminated on a command with another command still
\* waiting on the control socket, and the loop has gone on to the cleanup.
C8_Witness ==
    /\ ~ses.display
    /\ pc = "exit"
    /\ ipcq # <<>>
    /\ last.op \in {"ipc_commit", "ipc_cancel"}

\* The record at the cursor, as the sequence handed to the focus dispatch.
AtCursor(s) ==
    IF s.g_selection_index >= 0 /\ s.g_selection_index < Len(s.g_clients)
    THEN <<s.g_clients[s.g_selection_index + 1]>>
    ELSE <<>>

\* The loop takes a COMMIT command or the modifier-released signal.
CommitStep ==
    /\ ProgramStep
    /\ ses.display
    /\ \/ /\ pc = "ipc" /\ ipcq # <<>>
          /\ accepted_command[Head(ipcq)] = "SWITCHER_CMD_TYPE_COMMIT"
       \/ /\ pc = "alt_released" /\ ses.g_alt_released_flag

\* C9: a Commit command or the modifier-released signal taken while Active
\* issues one focus attempt, on exactly the record at the cursor (none when
\* the cursor is none), and the session is Terminated afterwards, whether
\* the focus attempt succeeded or every strategy failed.
C9_CommitFocusesCursor ==
    [][CommitStep =>
         /\ last'.focus = AtCursor(ses)
         /\ (ses.g_selection_index = NONE => last'.focus = <<>>)
         /\ ~ses'.display]_vars

\* A COMMIT has been taken with the cursor on a record that is not the first,
\* every focus strategy failed, and the session is Terminated.
C9_Witness ==
    /\ last.op = "ipc_commit"
    /\ Len(last.focus) = 1
    /\ last.focus[1].focusHistoryID >= 1
    /\ last.rc = -1
    /\ ~ses.display

\* The loop takes a CANCEL command or the escape signal.
CancelStep ==
    /\ ProgramStep
    /\ ses.display
    /\ \/ /\ pc = "ipc" /\ ipcq # <<>>
          /\ accepted_command[Head(ipcq)] = "SWITCHER_CMD_TYPE_CANCEL"
       \/ /\ pc = "escape" /\ ses.g_esc_flag

\* C10: cancel focuses the record of the current sequence whose address is
\* the anchor address; when no record has that address it focuses the record
\* at the anchor's original index; when a CloseWindow event has cleared the
\* anchor it issues no focus dispatch; in every case the session is
\* Terminated afterwards.
C10_CancelRestoresAnchor ==
    [][CancelStep =>
         LET a == ses.g_initial_focus_address
             i == ses.g_initial_focus_index
         IN /\ \A k \in 1..Len(ses.g_clients) :
                  (~anchor_closed /\ a # NULL /\ ses.g_clients[k].address = a)
                     => last'.focus = <<ses.g_clients[k]>>
            /\ (/\ ~anchor_closed /\ a # NULL /\ a \notin Addresses(ses)
                /\ i \in 0..(Len(ses.g_clients) - 1))
                  => last'.focus = <<ses.g_clients[i + 1]>>
            /\ anchor_closed => last'.focus = <<>>
            /\ ~ses'.display]_vars

\* What cancel does in terms of the anchor fields as they stand when it
\* runs: the record with the anchor address, else the record at the anchor
\* index, and no focus dispatch when both fields are clear.
CancelRestoresCurrentAnchor ==
    [][CancelStep =>
         LET a == ses.g_initial_focus_address
             i == ses.g_initial_focus_index
         IN /\ \A k \in 1..Len(ses.g_clients) :
                  (a # NULL /\ ses.g_clients[k].address = a)
                     => last'.focus = <<ses.g_clients[k]>>
            /\ (a # NULL /\ a \notin Addresses(ses) /\ i \in 0..(Len(ses.g_clients) - 1))
                  => last'.focus = <<ses.g_clients[i + 1]>>
            /\ (a = NULL /\ i = NONE) => last'.focus = <<>>
            /\ ~ses'.display]_vars

\* A cancel has focused the anchor window, found by its address at another
\* index than the one it had at the start.
CancelFoundByAddress ==
    /\ last.op \in {"ipc_cancel", "escape"}
    /\ Len(last.focus) = 1
    /\ last.focus[1].address = last.address
    /\ last.focus[1].focusHistoryID >= 1
    /\ ~ses.display

\* A cancel has found no record with the anchor address and has focused the
\* record at the anchor's index.
CancelFellBackToIndex ==
    /\ last.op \in {"ipc_cancel", "escape"}
    /\ Len(last.focus) = 1
    /\ last.address # NULL
    /\ last.focus[1].address # last.address

\* The record cancel() restores: the record whose address is the anchor
\* address, else the record at the anchor's index, else none.
AnchorRecord(s) ==
    LET a == s.g_initial_focus_address
        i == s.g_initial_focus_index
        hits == {k \in 1..Len(s.g_clients) : a # NULL /\ s.g_clients[k].address = a}
    IN IF hits # {}
       THEN <<s.g_clients[CHOOSE k \in hits : \A j \in hits : k <= j]>>
       ELSE IF i >= 0 /\ i < Len(s.g_clients) THEN <<s.g_clients[i + 1]>>
       ELSE <<>>

\* The loop takes the focus-lost signal.
FocusLostStep ==
    /\ ProgramStep
    /\ ses.display
    /\ pc = "focus_lost"
    /\ ses.g_focus_lost_flag

\* C11: a focus-lost signal taken while Active is dispatched to cancel(): the
\* focus attempt of the step targets the SessionAnchor window, not the window
\* at the cursor, and the session is Terminated afterwards.
C11_FocusLostCancels ==
    [][FocusLostStep =>
         /\ last'.focus = AnchorRecord(ses)
         /\ ~ses'.display]_vars

\* C12: a dead session never blocks a new one.  For an invocation that runs
\* with no other invocation beside it: a socket file with no listener behind
\* it makes tryConnect report no instance and remove the file, the listen()
\* that follows succeeds at the same path, and a Cycle invocation becomes the
\* main instance.
C12_StaleSocketHeals ==
    [][\A p \in Procs :
         (el.solo[p] /\ el'.pcs[p] # el.pcs[p]) =>
            /\ (el.pcs[p] = "connect" /\ el.file \notin el.listening)
                  => el'.pcs[p] = "unlink_stale"
            /\ el.pcs[p] = "unlink_stale"
                  => /\ el'.file = 0
                     /\ el'.pcs[p] = IF el.command[p] \in {"CYCLE", "CYCLE_BACKWARD"}
                                     THEN "listen_unlink" ELSE "exit_0"
            /\ el.pcs[p] = "bind"
                  => el'.pcs[p] = "listen" /\ el'.file = p
            /\ el.pcs[p] = "listen"
                  => /\ el'.pcs[p] = "main"
                     /\ p \in el'.listening
                     /\ el'.file = p]_vars

\* A main instance was killed and left its socket file; the next invocation,
\* running alone, has removed the file and listens as the main instance.
C12_Witness ==
    \E p \in Procs :
       /\ el.solo[p]
       /\ el.healed[p]
       /\ el.pcs[p] = "main"
       /\ el.file = p
       /\ el.listening = {p}
       /\ \E q \in Procs \ {p} : el.pcs[q] = "dead"

\* The command type switcher_ipc.h 34-41 gives each command string.
TypeOf(command) ==
    CASE command = SWITCHER_CMD_CYCLE -> "SWITCHER_CMD_TYPE_CYCLE"
      [] command = SWITCHER_CMD_CYCLE_BACKWARD -> "SWITCHER_CMD_TYPE_CYCLE_BACKWARD"
      [] command = SWITCHER_CMD_COMMIT -> "SWITCHER_CMD_TYPE_COMMIT"
      [] command = SWITCHER_CMD_CANCEL -> "SWITCHER_CMD_TYPE_CANCEL"
      [] OTHER -> "SWITCHER_CMD_TYPE_UNKNOWN"

\* The four commands, as main() hands them to send.
CommandStrings == {command_to_string(c) : c \in Commands}

\* C13: the frame send writes for Cycle, CycleBackward, Commit or Cancel, read
\* in full by readCommand, decodes to the same command; CYCLE_BACKWARD decodes
\* to CycleBackward and never to Cycle.
C13_RoundTrip ==
    (/\ wire.pc = "done"
     /\ wire.command \in CommandStrings
     /\ wire.rc = 0
     /\ Len(wire.got) = SWITCHER_IPC_MSG_SIZE)
       => /\ wire.cmd = TypeOf(wire.command)
          /\ (wire.command = SWITCHER_CMD_CYCLE_BACKWARD
                => wire.cmd # "SWITCHER_CMD_TYPE_CYCLE")

\* The frame of CYCLE_BACKWARD has been sent, read in full and decoded.
C13_Witness ==
    /\ wire.pc = "done"
    /\ wire.command = SWITCHER_CMD_CYCLE_BACKWARD
    /\ wire.rc = 0
    /\ wire.got = wire.msg
    /\ Len(wire.got) = SWITCHER_IPC_MSG_SIZE
    /\ wire.cmd = "SWITCHER_CMD_TYPE_CYCLE_BACKWARD"

\* C14: for a command string of any length send hands write() one frame of
\* exactly 16 bytes, the command left-justified and NUL-padded, a longer
\* string truncated; what reaches the connection is that frame when send
\* succeeds and never holds a byte beyond it.
C14_OneFrame ==
    wire.pc \in {"read", "done"} =>
       LET c == wire.command
           m == wire.msg
       IN /\ Len(m) = SWITCHER_IPC_MSG_SIZE
          /\ \E k \in 0..SWITCHER_IPC_MSG_SIZE :
                /\ k <= Len(c)
                /\ Len(c) < SWITCHER_IPC_MSG_SIZE => k = Len(c)
                /\ \A i \in 1..SWITCHER_IPC_MSG_SIZE :
                      m[i] = IF i <= k THEN c[i] ELSE NUL
          /\ Len(wire.conn) <= SWITCHER_IPC_MSG_SIZE
          /\ wire.conn = SubSeq(m, 1, Len(wire.conn))
          /\ wire.rc = 0 => wire.conn = m

\* A command string longer than the frame has been sent: the connection
\* holds 16 bytes.
C14_Witness ==
    /\ wire.pc = "read"
    /\ Len(wire.command) > SWITCHER_IPC_MSG_SIZE
    /\ wire.rc = 0
    /\ Len(wire.conn) = SWITCHER_IPC_MSG_SIZE

\* process_ipc_commands reads the connection at the head of the backlog.
IpcReadStep ==
    /\ ProgramStep
    /\ ses.display
    /\ pc = "ipc"
    /\ ipcq # <<>>

\* C15: when readCommand obtains fewer than 16 bytes from a connection it
\* reports no command: the partial frame is not dispatched as Cycle,
\* CycleBackward, Commit or Cancel and the session state is unchanged.
C15_PartialFrameIgnored ==
    [][(IpcReadStep /\ Len(Received(Head(ipcq))) < SWITCHER_IPC_MSG_SIZE) =>
         /\ last'.op \notin {"ipc_cycle", "ipc_cycle_backward",
                             "ipc_commit", "ipc_cancel"}
         /\ ses' = ses]_vars

\* The payload of a frame: its bytes before the first NUL.
Payload(frame) ==
    LET nuls == {i \in 1..Len(frame) : frame[i] = NUL}
    IN IF nuls = {} THEN frame
       ELSE SubSeq(frame, 1, (CHOOSE i \in nuls : \A j \in nuls : i <= j) - 1)

\* C16: a full frame whose payload is none of CYCLE, CYCLE_BACKWARD, COMMIT,
\* CANCEL is ignored: the window sequence, the cursor and the anchor are
\* unchanged and the session stays Active.
C16_UnknownFrameIgnored ==
    [][(/\ IpcReadStep
        /\ Len(Received(Head(ipcq))) = SWITCHER_IPC_MSG_SIZE
        /\ Payload(Received(Head(ipcq))) \notin CommandStrings) =>
         /\ ses'.g_clients = ses.g_clients
         /\ ses'.g_selection_index = ses.g_selection_index
         /\ Anchor(ses') = Anchor(ses)
         /\ ses'.display]_vars

\* C17: every request to the window directory terminates, with success once
\* a complete document is assembled and with failure on a poll error other
\* than interrupt, a poll timeout, a parse error, or the peer closing before
\* a complete document has arrived.
C17_RequestTerminates == <>(rq.pc \in {"ok", "fail"})

\* What each report of poll() and read() must lead to, step by step.
RequestOutcomes ==
    [][/\ rq'.ev = "json_tokener_success" /\ rq' # rq => rq'.pc = "ok"
       /\ (rq'.ev \in {"poll_error", "timeout", "json_tokener_error"} /\ rq' # rq)
             => rq'.pc = "fail"]_vars

\* The peer has closed before a complete document and the call has read the
\* end of file.
RequestAtEof ==
    /\ rq.pc = "poll"
    /\ rq.ev = "eof"
    /\ rq.closed

\* A refresh whose directory fetch failed.
FailedRefreshStep ==
    /\ pc = "refresh"
    /\ ses.g_clients_dirty
    /\ last'.op = "refresh_failed"

\* C18: when a directory refresh fails the session state is untouched: the
\* window sequence, the cursor and the selected address after the failed
\* refresh equal their values before it, and the session stays Active.
C18_FailedRefreshKeepsState ==
    [][FailedRefreshStep =>
         /\ ses'.g_clients = ses.g_clients
         /\ ses'.g_selection_index = ses.g_selection_index
         /\ ses'.g_selected_address = ses.g_selected_address
         /\ ses'.display]_vars

\* The lines the reader holds or can read, oldest first.
PendingLines == evbuf \o evsock

\* process_hypr_events calls hypr_events_read.
EventReadStep ==
    /\ ProgramStep
    /\ ses.display
    /\ pc = "events"
    /\ ses.g_hypr_events_fd

\* C19: one event-processing pass consumes every complete line held in the
\* reader's buffer before the loop goes back to the poll wait, whatever the
\* kinds of the lines.
C19_PassDrainsBuffer ==
    [][(EventReadStep /\ last'.op = "events_done") => evbuf' = <<>>]_vars

\* A line without the separator or with another event name than the four.
BadLine(line) == line.type \notin {"openwindow", "closewindow", "activewindow",
                                   "movewindow"}

\* The step handled no event and ended the pass: the window sequence, the
\* cursor and the anchor are as before and the dirty flag owes nothing to
\* the line read.
NoEventHandled ==
    /\ pc' # "events"
    /\ last'.op = "events_done"
    /\ ses'.g_clients = ses.g_clients
    /\ ses'.g_selection_index = ses.g_selection_index
    /\ ses'.g_selected_address = ses.g_selected_address
    /\ Anchor(ses') = Anchor(ses)
    /\ ses'.g_clients_dirty = (ses.g_clients_dirty \/ list_changed)

\* C20: a complete event line without the '>>' separator, or with an event
\* name other than openwindow/closewindow/activewindow/movewindow, is
\* consumed exactly once and produces no event; the window sequence, cursor,
\* anchor and dirty flag are unchanged by it, and the lines after it are
\* still parsed: the next one in the same read or a later one, none lost.
C20_BadLineSkipped ==
    [][(EventReadStep /\ PendingLines # <<>> /\ BadLine(Head(PendingLines))) =>
         LET rest == Tail(PendingLines)
         IN \/ /\ PendingLines' = rest
               /\ NoEventHandled
            \/ /\ rest # <<>>
               /\ PendingLines' = Tail(rest)
               /\ IF BadLine(Head(rest))
                  THEN NoEventHandled
                  ELSE /\ last'.op = Head(rest).type
                       /\ pc' = "events"]_vars

\* A read has consumed a line that does not parse and has gone on to the
\* closewindow line after it, which was handled.
C20_Witness ==
    /\ last.op = "closewindow"
    /\ last.skipped = 1
    /\ pc = "events"
    /\ list_changed

(***************************************************************************)
(* One call of hypr_ipc_focus_client (ipc.c 304-467), one dispatch request *)
(* per step, beside a compositor that answers each request or does not.    *)
(*   fc.client    the record handed to the call, NULL for no record        *)
(*   fc.attempts  the requests made so far, each with what became of it    *)
(*   fc.rc        the value the call returns                               *)
(***************************************************************************)
MaxAddrLen == 3     \* characters in a record's address

\* The characters of the addresses: hex digits, the x of the prefix and a
\* letter that is no hex digit.
AddrChars == {"0", "x", "a", "F", "g"}

HexDigits == {"0", "1", "2", "3", "4", "5", "6", "7", "8", "9",
              "a", "b", "c", "d", "e", "f", "A", "B", "C", "D", "E", "F"}

\* A NULL char* among the strings, and a NULL HyprClientInfo* among the
\* records.
NullStr == <<"(null)">>

NullClient == [null |-> TRUE]

\* The records: an address, a class and a title, each of them NULL, empty
\* or not.
FocusClients ==
    [address : {NullStr} \cup UNION {[1..n -> AddrChars] : n \in 0..MaxAddrLen},
     app_class : {NullStr, <<>>, <<"k">>},
     title : {NullStr, <<>>, <<"t">>}]

\* for (; *p; ++p): every character from place i on is a hex digit.
RECURSIVE hex_from(_, _)
hex_from(address, i) ==
    IF ByteAt(address, i) = NUL THEN TRUE
    ELSE IF ByteAt(address, i) \notin HexDigits THEN FALSE
    ELSE hex_from(address, i + 1)

\* validate_address_multi that looks at the prefix alone.
validate_address_multi_prefix(address) ==
    IF address = NullStr THEN -1
    ELSE IF ~strncmp_equal(address, <<"0", "x">>, 2) THEN -1
    ELSE 0

\* validate_address_multi
validate_address_multi(address) ==
    IF address = NullStr THEN -1
    ELSE IF ~strncmp_equal(address, <<"0", "x">>, 2) THEN -1
    ELSE IF ByteAt(address, 3) = NUL THEN -1
    ELSE IF ~hex_from(address, 3) THEN -1
    ELSE 0

\* hypr_ipc_send_command_capture: the socket does not open, the write comes
\* short, or the request is written and the reply read is empty (none came
\* in time), holds "No such window found", or is another text.
CaptureOutcomes == {"open_failed", "write_failed", "no_reply", "not_found",
                    "other_reply"}

\* The test after each request: rc == 0 and (resp[0] == '\0' or no
\* "No such window found" in resp).
focus_success(out) == out \in {"no_reply", "other_reply"}

\* The order of the requests.
StrategyRank(strategy) ==
    CASE strategy = "address_prefix" -> 1
      [] strategy = "address_raw" -> 2
      [] strategy = "class" -> 3
      [] strategy = "title" -> 4

\* The first request the call makes after k of its four: the address
\* requests when the address is valid, the class and title requests when
\* the string is there and not empty; "none" when nothing is left.
StrategyFrom(client, k) ==
    LET by_address == /\ client.address # NullStr
                      /\ validate_address_multi(client.address) = 0
    IN IF k < 1 /\ by_address THEN "address_prefix"
       ELSE IF k < 2 /\ by_address THEN "address_raw"
       ELSE IF k < 3 /\ client.app_class # NullStr /\ client.app_class # <<>>
            THEN "class"
       ELSE IF k < 4 /\ client.title # NullStr /\ client.title # <<>>
            THEN "title"
       ELSE "none"

\* Where the call stands after k requests without success.
FocusGoOn(f, k) ==
    LET next == StrategyFrom(f.client, k)
    IN IF next = "none" THEN [f EXCEPT !.pc = "done", !.rc = -1]
       ELSE [f EXCEPT !.pc = next]

InitFocus ==
    /\ ses = InitSession(FALSE)
    /\ pc = "done"
    /\ list_changed = FALSE
    /\ wlQueue = <<>>
    /\ wlSock = <<>>
    /\ evbuf = <<>>
    /\ evsock = <<>>
    /\ ipcq = <<>>
    /\ world = <<>>
    /\ env = 0
    /\ last = Did("init", FALSE, <<>>)
    /\ anchor_closed = FALSE
    /\ el = ElIdle
    /\ er = ErIdle
    /\ ac = AcIdle
    /\ sd = SdIdle
    /\ rf = RfIdle
    /\ pl = PlIdle
    /\ inp = InpIdle
    /\ ls = LsIdle
    /\ cu = CuIdle
    /\ pe = PeIdle
    /\ srt = SrtIdle
    /\ wire = WireIdle
    /\ rq = RqIdle
    /\ \E c \in FocusClients \cup {NullClient} :
          fc = [pc |-> "start", client |-> c, attempts |-> <<>>, rc |-> 0]

\* hypr_ipc_focus_client 416-419: no record, no request.
FocusClient ==
    /\ fc.pc = "start"
    /\ fc' = IF fc.client = NullClient THEN [fc EXCEPT !.pc = "done", !.rc = -1]
             ELSE FocusGoOn(fc, 0)
    /\ UNCHANGED focusVars

\* One request and the test of its reply: the call returns 0 at the first
\* success and goes on to the next request otherwise.
FocusAttempt(strategy) ==
    /\ fc.pc = strategy
    /\ \E out \in CaptureOutcomes :
          LET tried == [fc EXCEPT !.attempts =
                           Append(@, [strategy |-> strategy, out |-> out])]
          IN fc' = IF focus_success(out)
                   THEN [tried EXCEPT !.pc = "done", !.rc = 0]
                   ELSE FocusGoOn(tried, StrategyRank(strategy))
    /\ UNCHANGED focusVars

\* hypr_ipc_focus_address 384-394: dispatch focuswindow address:<address>
FocusAddressPrefix == FocusAttempt("address_prefix")

\* hypr_ipc_focus_address 396-407: dispatch focuswindow <address>
FocusAddressRaw == FocusAttempt("address_raw")

\* hypr_ipc_focus_client 429-443: dispatch focuswindow class:<escaped>
FocusClass == FocusAttempt("class")

\* hypr_ipc_focus_client 445-459: dispatch focuswindow title:<escaped>
FocusTitle == FocusAttempt("title")

NextFocus ==
    \/ FocusClient \/ FocusAddressPrefix \/ FocusAddressRaw
    \/ FocusClass \/ FocusTitle

SpecFocus == InitFocus /\ [][NextFocus]_vars

\* An address of the shape 0x followed by one or more hex digits.
WellFormedAddress(address) ==
    /\ address # NullStr
    /\ Len(address) >= 3
    /\ address[1] = "0"
    /\ address[2] = "x"
    /\ \A i \in 3..Len(address) : address[i] \in HexDigits

\* The requests made to focus by address.
AddressAttempts ==
    {i \in 1..Len(fc.attempts) :
        fc.attempts[i].strategy \in {"address_prefix", "address_raw"}}

\* C21: the requests of one call come in the order address with prefix, raw
\* address, class, title; no request follows one that succeeded (its reply
\* read without "No such window found"); the call returns 0 iff one of its
\* requests succeeded; and a record whose address is not 0x followed by hex
\* digits gets no request by address.
C21_FocusStrategies ==
    fc.pc # "off" =>
       /\ \A i, j \in 1..Len(fc.attempts) :
             i < j => StrategyRank(fc.attempts[i].strategy)
                         < StrategyRank(fc.attempts[j].strategy)
       /\ \A i \in 1..(Len(fc.attempts) - 1) : ~focus_success(fc.attempts[i].out)
       /\ fc.pc = "done" =>
             (fc.rc = 0 <=> \E i \in 1..Len(fc.attempts) :
                               focus_success(fc.attempts[i].out))
       /\ (fc.client # NullClient /\ ~WellFormedAddress(fc.client.address)) =>
             AddressAttempts = {}

\* A record with a malformed address and a class: the call went straight to
\* the class request, which failed, and succeeded by title.
C21_Witness ==
    /\ fc.pc = "done"
    /\ fc.rc = 0
    /\ fc.client # NullClient
    /\ fc.client.address = <<"0", "x", "g">>
    /\ Len(fc.attempts) = 2
    /\ fc.attempts[1].strategy = "class"
    /\ fc.attempts[1].out = "not_found"
    /\ fc.attempts[2].strategy = "title"

(***************************************************************************)
(* One call of hypr_ipc_sort_clients_by_focus on an array of records.      *)
(***************************************************************************)
MaxSort == 4        \* records in the array
MaxKey == 2         \* the greatest focusHistoryID

\* The arrays: the record at place i carries address i, so that records
\* with equal focusHistoryID can be told apart.
SortInputs ==
    UNION {{[i \in 1..n |-> [address |-> i, focusHistoryID |-> keys[i]]] :
              keys \in [1..n -> -1..MaxKey]} : n \in 0..MaxSort}

InitSort ==
    /\ ses = InitSession(FALSE)
    /\ pc = "done"
    /\ list_changed = FALSE
    /\ wlQueue = <<>>
    /\ wlSock = <<>>
    /\ evbuf = <<>>
    /\ evsock = <<>>
    /\ ipcq = <<>>
    /\ world = <<>>
    /\ env = 0
    /\ last = Did("init", FALSE, <<>>)
    /\ anchor_closed = FALSE
    /\ el = ElIdle
    /\ er = ErIdle
    /\ ac = AcIdle
    /\ sd = SdIdle
    /\ rf = RfIdle
    /\ pl = PlIdle
    /\ inp = InpIdle
    /\ ls = LsIdle
    /\ cu = CuIdle
    /\ pe = PeIdle
    /\ wire = WireIdle
    /\ rq = RqIdle
    /\ fc = FcIdle
    /\ \E list \in SortInputs : srt = [pc |-> "call", clients |-> list, in |-> list]

\* hypr_ipc_sort_clients_by_focus(clients, count) sorts the array in place.
SortClients ==
    /\ srt.pc = "call"
    /\ srt' = [srt EXCEPT !.pc = "done",
                          !.clients = hypr_ipc_sort_clients_by_focus(srt.clients)]
    /\ UNCHANGED sortVars

NextSort == SortClients

SpecSort == InitSort /\ [][NextSort]_vars

\* The keys of an array, in its order.
Keys(list) == [i \in 1..Len(list) |-> list[i].focusHistoryID]

\* C22: the sorted array is a permutation of the input, ascending by
\* focusHistoryID with every -1 after all real values, and records with
\* equal keys keep their input order; keys 2, -1, 0, 1 sort to 0, 1, 2, -1.
C22_SortByFocusRecency ==
    srt.pc = "done" =>
       LET out == srt.clients
       IN /\ Len(out) = Len(srt.in)
          /\ Range(out) = Range(srt.in)
          /\ \A i, j \in 1..Len(out) :
                i < j =>
                   /\ out[i].focusHistoryID = -1 => out[j].focusHistoryID = -1
                   /\ out[j].focusHistoryID # -1 =>
                         out[i].focusHistoryID <= out[j].focusHistoryID
                   /\ out[i].focusHistoryID = out[j].focusHistoryID =>
                         out[i].address < out[j].address
          /\ Keys(srt.in) = <<2, -1, 0, 1>> => Keys(out) = <<0, 1, 2, -1>>

\* The array with keys 2, -1, 0, 1 has been sorted.
C22_Witness ==
    /\ srt.pc = "done"
    /\ Keys(srt.in) = <<2, -1, 0, 1>>
    /\ Keys(srt.clients) = <<0, 1, 2, -1>>

(***************************************************************************)
(* parse_event_line (hypr_events.c 80-205) on one openwindow line, the     *)
(* data after ">>" as the sequence of its characters.                      *)
(***************************************************************************)
MaxTitle == 3       \* characters in a window title

\* sizeof(event->address), sizeof(event->window_class), sizeof(event->title)
ADDRESS_SIZE == 32

WINDOW_CLASS_SIZE == 128

TITLE_SIZE == 256

\* The titles: letters and commas.
Titles == UNION {[1..n -> {"t", ","}] : n \in 0..MaxTitle}

\* The lines the compositor writes for a window that opens: its address
\* without 0x, its workspace, its class and its title.
OpenWindows ==
    [address : {<<"a">>, <<"5", "c">>},
     workspace_id : {1, 12},
     window_class : {<<"k">>, <<"k", "i">>},
     title : Titles]

DigitChars == <<"0", "1", "2", "3", "4", "5", "6", "7", "8", "9">>

\* The decimal digits of a number, as the compositor prints it.
RECURSIVE Decimal(_)
Decimal(n) ==
    IF n < 10 THEN <<DigitChars[n + 1]>>
    ELSE Append(Decimal(n \div 10), DigitChars[(n % 10) + 1])

\* ADDRESS,WORKSPACE_ID,CLASS,TITLE
OpenWindowData(w) ==
    w.address \o <<",">> \o Decimal(w.workspace_id) \o <<",">>
       \o w.window_class \o <<",">> \o w.title

\* atoi on a string from place i on: the number its leading digits spell.
RECURSIVE atoi_from(_, _, _)
atoi_from(str, i, acc) ==
    IF i > Len(str) \/ \A d \in 1..10 : DigitChars[d] # str[i] THEN acc
    ELSE atoi_from(str, i + 1,
                   10 * acc + (CHOOSE d \in 1..10 : DigitChars[d] = str[i]) - 1)

atoi(str) == atoi_from(str, 1, 0)

\* The first place from p on that holds no comma, and the first that holds
\* one (the place after the end when there is none).
RECURSIVE SkipDelims(_, _)
SkipDelims(str, p) ==
    IF p <= Len(str) /\ str[p] = "," THEN SkipDelims(str, p + 1) ELSE p

RECURSIVE TokenEnd(_, _)
TokenEnd(str, p) ==
    IF p <= Len(str) /\ str[p] # "," THEN TokenEnd(str, p + 1) ELSE p

\* strtok_r(NULL, ",", &saveptr) with saveptr at place p of str: the commas
\* at p are skipped, the token runs to the next comma; no token (NULL) when
\* only commas or nothing are left.
strtok_r(str, p) ==
    LET start == SkipDelims(str, p)
        end == TokenEnd(str, start)
    IN IF start > Len(str) THEN [token |-> NullStr, saveptr |-> start]
       ELSE [token |-> SubSeq(str, start, end - 1),
             saveptr |-> IF end <= Len(str) THEN end + 1 ELSE end]

\* snprintf and strncpy into a zeroed field of size bytes: size - 1
\* characters at most.
Field(str, size) == SubSeq(str, 1, IF Len(str) < size - 1 THEN Len(str) ELSE size - 1)

\* Lines 131-143: every further token is appended to the title behind a
\* comma.
RECURSIVE title_rest(_, _, _)
title_rest(str, p, title) ==
    LET t == strtok_r(str, p)
    IN IF t.token = NullStr THEN title
       ELSE title_rest(str, t.saveptr,
                       Field(title \o <<",">> \o t.token, TITLE_SIZE))

\* The openwindow branch, lines 109-157: the event parse_event_line fills
\* from the data.
parse_openwindow(data) ==
    LET none == [address |-> <<>>, workspace_id |-> -1, window_class |-> <<>>,
                 title |-> <<>>]
        t0 == strtok_r(data, 1)
        t1 == strtok_r(data, t0.saveptr)
        t2 == strtok_r(data, t1.saveptr)
        t3 == strtok_r(data, t2.saveptr)
        e0 == [none EXCEPT !.address = Field(<<"0", "x">> \o t0.token, ADDRESS_SIZE)]
        e1 == [e0 EXCEPT !.workspace_id = atoi(t1.token)]
        e2 == [e1 EXCEPT !.window_class = Field(t2.token, WINDOW_CLASS_SIZE)]
        e3 == [e2 EXCEPT !.title = title_rest(data, t3.saveptr,
                                              Field(t3.token, TITLE_SIZE))]
    IN IF t0.token = NullStr THEN none
       ELSE IF t1.token = NullStr THEN e0
       ELSE IF t2.token = NullStr THEN e1
       ELSE IF t3.token = NullStr THEN e2
       ELSE e3

InitParse ==
    /\ ses = InitSession(FALSE)
    /\ pc = "done"
    /\ list_changed = FALSE
    /\ wlQueue = <<>>
    /\ wlSock = <<>>
    /\ evbuf = <<>>
    /\ evsock = <<>>
    /\ ipcq = <<>>
    /\ world = <<>>
    /\ env = 0
    /\ last = Did("init", FALSE, <<>>)
    /\ anchor_closed = FALSE
    /\ el = ElIdle
    /\ er = ErIdle
    /\ ac = AcIdle
    /\ sd = SdIdle
    /\ rf = RfIdle
    /\ pl = PlIdle
    /\ inp = InpIdle
    /\ ls = LsIdle
    /\ cu = CuIdle
    /\ wire = WireIdle
    /\ rq = RqIdle
    /\ fc = FcIdle
    /\ srt = SrtIdle
    /\ \E w \in OpenWindows :
          pe = [pc |-> "line", window |-> w, data |-> OpenWindowData(w)]

\* parse_event_line on the line "openwindow>>" and the data.
ParseOpenWindow ==
    /\ pe.pc = "line"
    /\ pe' = [pc |-> "parsed", window |-> pe.window, data |-> pe.data,
              event |-> parse_openwindow(pe.data)]
    /\ UNCHANGED parseVars

NextParse == ParseOpenWindow

SpecParse == InitParse /\ [][NextParse]_vars

\* C23: the event parsed from an openwindow line has the address token
\* behind 0x, the workspace and the class of the line, and for title the
\* whole remainder of the line after the third comma, commas included.
C23_OpenWindowFields ==
    pe.pc = "parsed" =>
       /\ pe.event.address = <<"0", "x">> \o pe.window.address
       /\ pe.event.workspace_id = pe.window.workspace_id
       /\ pe.event.window_class = pe.window.window_class
       /\ pe.event.title = pe.window.title

\* Holds of the code: a title survives with single commas between its
\* other characters.
OpenWindowTitleKept ==
    (pe.pc = "parsed"
       /\ pe.window.title # <<>>
       /\ Head(pe.window.title) # ","
       /\ pe.window.title[Len(pe.window.title)] # ","
       /\ \A i \in 1..(Len(pe.window.title) - 1) :
             ~(pe.window.title[i] = "," /\ pe.window.title[i + 1] = ","))
    => pe.event.title = pe.window.title

(***************************************************************************)
(* switcher_ipc_cleanup (switcher_ipc.c 270-290) called twice in a row by  *)
(* one process, one system call per step.                                  *)
(*   cu.listen_fd  the argument, -1 when no listener was started           *)
(*   cu.fds        the descriptors the process holds open                  *)
(*   cu.file       the socket file exists                                  *)
(*   cu.dir        the socket directory: "absent", "empty" but for the     *)
(*                 socket file, or holding "others"                        *)
(*   cu.first      the files and descriptors when the first call returned  *)
(***************************************************************************)
LISTEN_FD == 3      \* the descriptor switcher_ipc_listen returned

DISPLAY_FD == 4     \* another descriptor of the process

\* The system calls of one cleanup, in their order.
cleanup_steps_rmdir_first == <<"close", "rmdir", "unlink">>

cleanup_steps == <<"close", "unlink", "rmdir">>

\* The files and descriptors of a state.
Resources(c) == [fds |-> c.fds, file |-> c.file, dir |-> c.dir]

\* cleanup is called on the state main() can be in: with the descriptor of
\* the listener, which is open and whose paths are initialized, or with -1;
\* the socket file lies in the socket directory.
InitCleanup ==
    /\ ses = InitSession(FALSE)
    /\ pc = "done"
    /\ list_changed = FALSE
    /\ wlQueue = <<>>
    /\ wlSock = <<>>
    /\ evbuf = <<>>
    /\ evsock = <<>>
    /\ ipcq = <<>>
    /\ world = <<>>
    /\ env = 0
    /\ last = Did("init", FALSE, <<>>)
    /\ anchor_closed = FALSE
    /\ el = ElIdle
    /\ er = ErIdle
    /\ ac = AcIdle
    /\ sd = SdIdle
    /\ rf = RfIdle
    /\ pl = PlIdle
    /\ inp = InpIdle
    /\ ls = LsIdle
    /\ wire = WireIdle
    /\ rq = RqIdle
    /\ fc = FcIdle
    /\ srt = SrtIdle
    /\ pe = PeIdle
    /\ \E fd \in {-1, LISTEN_FD}, others \in SUBSET {DISPLAY_FD},
          file \in BOOLEAN, dir \in {"absent", "empty", "others"},
          init \in BOOLEAN :
          /\ fd = LISTEN_FD => init
          /\ file => dir # "absent"
          /\ cu = [pc |-> "run", at |-> 1, calls |-> 0, listen_fd |-> fd,
                   fds |-> others \cup (IF fd = LISTEN_FD THEN {fd} ELSE {}),
                   file |-> file, dir |-> dir,
                   s_paths_initialized |-> init,
                   first |-> [fds |-> {}, file |-> FALSE, dir |-> "absent"]]

\* After a system call: the next one, or the return of the call; the second
\* call follows the first at once.
CleanupGoOn(c) ==
    IF c.at < Len(cleanup_steps) THEN [c EXCEPT !.at = @ + 1]
    ELSE [c EXCEPT !.pc = IF c.calls = 0 THEN "run" ELSE "returned",
                   !.at = 1,
                   !.calls = @ + 1,
                   !.first = IF c.calls = 0 THEN Resources(c) ELSE @]

CleanupAt(step) == cu.pc = "run" /\ cleanup_steps[cu.at] = step

\* Lines 271-274: if (listen_fd >= 0) close(listen_fd);
CleanupCloseFd ==
    /\ CleanupAt("close")
    /\ cu' = CleanupGoOn(IF cu.listen_fd >= 0
                         THEN [cu EXCEPT !.fds = @ \ {cu.listen_fd}]
                         ELSE cu)
    /\ UNCHANGED cleanupVars

\* Lines 276-279: unlink(s_socket_path) once the paths are initialized.
CleanupUnlinkPath ==
    /\ CleanupAt("unlink")
    /\ cu' = CleanupGoOn(IF cu.s_paths_initialized
                         THEN [cu EXCEPT !.file = FALSE]
                         ELSE cu)
    /\ UNCHANGED cleanupVars

\* Lines 281-286: rmdir(s_socket_dir) succeeds on an empty directory.
CleanupRmdir ==
    /\ CleanupAt("rmdir")
    /\ cu' = CleanupGoOn(IF cu.s_paths_initialized /\ cu.dir = "empty" /\ ~cu.file
                         THEN [cu EXCEPT !.dir = "absent"]
                         ELSE cu)
    /\ UNCHANGED cleanupVars

NextCleanup == CleanupCloseFd \/ CleanupUnlinkPath \/ CleanupRmdir

SpecCleanup == InitCleanup /\ [][NextCleanup]_vars

\* C24: cleanup called twice in a row, with a listener or without one ever
\* started, runs to its end both times, and the second call leaves the
\* socket file, the socket directory and the open descriptors as the first
\* call left them.
C24_CleanupIdempotent ==
    /\ cu.pc = "run" => cu.calls \in 0..1
    /\ cu.pc = "returned" => (cu.calls = 2 /\ Resources(cu) = cu.first)

\* The second call has returned in a process that had a listener, whose
\* socket file and directory the first call removed.
C24_Witness ==
    /\ cu.pc = "returned"
    /\ cu.listen_fd = LISTEN_FD
    /\ cu.first = [fds |-> {DISPLAY_FD}, file |-> FALSE, dir |-> "absent"]

\* Where an invocation stands from the first system call of
\* switcher_ipc_listen to the end of its session.
Listening == {"listen_unlink", "bind", "listen", "main", "cleanup_unlink", "dead"}

\* switcher_ipc_try_connect returns -1 to invocation p in this step: the
\* path holds no file, or the connection was refused and the file removed.
NoInstanceStep(p) ==
    /\ el'.pcs[p] # el.pcs[p]
    /\ \/ el.pcs[p] = "stat" /\ el.file = 0
       \/ el.pcs[p] = "unlink_stale"

\* C25: an invocation with --commit or --cancel that finds no main instance
\* does nothing: it never creates the listening socket, never becomes a
\* session (which alone dispatches a focus), and it exits with code 0.
C25_CommitCancelNoop ==
    [][\A p \in Procs :
         el'.command[p] \in {"COMMIT", "CANCEL"} =>
            /\ el'.pcs[p] \notin Listening
            /\ p \notin el'.listening
            /\ el'.file # p
            /\ NoInstanceStep(p) => el'.pcs[p] = "exit_0"]_vars

\* A --commit invocation found a dead session's socket file, removed it and
\* exited with code 0.
C25_Witness ==
    \E p \in Procs :
       /\ el.command[p] = "COMMIT"
       /\ el.healed[p]
       /\ el.pcs[p] = "exit_0"

(***************************************************************************)
(* One call of switcher_ipc_listen (switcher_ipc.c 149-206) and main()'s   *)
(* test of its result, one system call per step; each call succeeds or     *)
(* fails.                                                                  *)
(*   ls.dir     the socket directory: "absent" or its permissions          *)
(*   ls.file    the socket file: "absent" or its permissions               *)
(*   ls.fd      the socket: "none", "open", "bound", "listening", "closed" *)
(*   ls.nonblock  O_NONBLOCK is set on the socket                          *)
(*   ls.failed  the steps that failed                                      *)
(*   ls.rc      what switcher_ipc_listen returned                          *)
(***************************************************************************)
\* return -1, after close(fd) when the socket is open.
ListenFail(state) ==
    [state EXCEPT !.pc = "returned", !.rc = -1,
                  !.fd = IF @ = "none" THEN "none" ELSE "closed"]

InitListen ==
    /\ ses = InitSession(FALSE)
    /\ pc = "done"
    /\ list_changed = FALSE
    /\ wlQueue = <<>>
    /\ wlSock = <<>>
    /\ evbuf = <<>>
    /\ evsock = <<>>
    /\ ipcq = <<>>
    /\ world = <<>>
    /\ env = 0
    /\ last = Did("init", FALSE, <<>>)
    /\ anchor_closed = FALSE
    /\ el = ElIdle
    /\ er = ErIdle
    /\ ac = AcIdle
    /\ sd = SdIdle
    /\ rf = RfIdle
    /\ pl = PlIdle
    /\ inp = InpIdle
    /\ wire = WireIdle
    /\ rq = RqIdle
    /\ fc = FcIdle
    /\ srt = SrtIdle
    /\ pe = PeIdle
    /\ cu = CuIdle
    /\ \E dir \in {"absent", "0700", "0755"}, file \in {"absent", "0600", "0755"} :
          /\ dir = "absent" => file = "absent"
          /\ ls = [pc |-> "init_paths", dir |-> dir, file |-> file, fd |-> "none",
                   nonblock |-> FALSE, failed |-> {}, rc |-> 0, session |-> FALSE]

\* Lines 150-152: init_paths() fails when XDG_RUNTIME_DIR is not set or the
\* path is too long.
listen_init_paths ==
    /\ ls.pc = "init_paths"
    /\ \E ok \in BOOLEAN :
          ls' = IF ok THEN [ls EXCEPT !.pc = "mkdir"]
                ELSE ListenFail([ls EXCEPT !.failed = @ \cup {"init_paths"}])
    /\ UNCHANGED listenVars

\* Lines 155-158: mkdir(s_socket_dir, 0700), which a directory already there
\* does not fail.
listen_mkdir ==
    /\ ls.pc = "mkdir"
    /\ \/ /\ ls.dir = "absent"
          /\ ls' = [ls EXCEPT !.pc = "stat_dir", !.dir = "0700"]
       \/ /\ ls.dir # "absent"
          /\ ls' = [ls EXCEPT !.pc = "stat_dir"]
       \/ ls' = ListenFail([ls EXCEPT !.failed = @ \cup {"mkdir"}])
    /\ UNCHANGED listenVars

\* Lines 160-168: a directory of other permissions is set to 0700; the
\* result of chmod is not looked at.
listen_stat_dir ==
    /\ ls.pc = "stat_dir"
    /\ \/ ls' = [ls EXCEPT !.pc = "unlink", !.dir = "0700"]
       \/ /\ ls.dir # "0700"
          /\ ls' = [ls EXCEPT !.pc = "unlink", !.failed = @ \cup {"chmod_dir"}]
    /\ UNCHANGED listenVars

\* Lines 170-171: unlink(s_socket_path); its result is not looked at.
listen_unlink ==
    /\ ls.pc = "unlink"
    /\ \/ ls' = [ls EXCEPT !.pc = "socket", !.file = "absent"]
       \/ /\ ls.file # "absent"
          /\ ls' = [ls EXCEPT !.pc = "socket", !.failed = @ \cup {"unlink"}]
    /\ UNCHANGED listenVars

\* Lines 173-177: socket()
listen_socket ==
    /\ ls.pc = "socket"
    /\ \E ok \in BOOLEAN :
          ls' = IF ok THEN [ls EXCEPT !.pc = "bind", !.fd = "open"]
                ELSE ListenFail([ls EXCEPT !.failed = @ \cup {"socket"}])
    /\ UNCHANGED listenVars

\* Lines 185-189: bind() creates the socket file with the permissions the
\* umask leaves; it fails when the path holds a file.
listen_bind ==
    /\ ls.pc = "bind"
    /\ \E ok \in BOOLEAN :
          ls' = IF ok /\ ls.file = "absent"
                THEN [ls EXCEPT !.pc = "chmod", !.file = "0755", !.fd = "bound"]
                ELSE ListenFail([ls EXCEPT !.failed = @ \cup {"bind"}])
    /\ UNCHANGED listenVars

\* Line 192: chmod(s_socket_path, 0600); its result is not looked at.
listen_chmod ==
    /\ ls.pc = "chmod"
    /\ \E ok \in BOOLEAN :
          ls' = IF ok THEN [ls EXCEPT !.pc = "listen", !.file = "0600"]
                ELSE [ls EXCEPT !.pc = "listen", !.failed = @ \cup {"chmod"}]
    /\ UNCHANGED listenVars

\* Lines 194-199: listen(fd, 5); on failure close, unlink, return -1.
listen_listen ==
    /\ ls.pc = "listen"
    /\ \E ok \in BOOLEAN :
          ls' = IF ok THEN [ls EXCEPT !.pc = "set_nonblocking", !.fd = "listening"]
                ELSE ListenFail([ls EXCEPT !.file = "absent",
                                           !.failed = @ \cup {"listen"}])
    /\ UNCHANGED listenVars

\* set_nonblocking 61-65: fcntl(fd, F_GETFL, 0); listen() does not look at
\* the result of set_nonblocking (line 202) and returns fd.
listen_fcntl_getfl ==
    /\ ls.pc = "set_nonblocking"
    /\ \E ok \in BOOLEAN :
          ls' = IF ok THEN [ls EXCEPT !.pc = "fcntl_setfl"]
                ELSE [ls EXCEPT !.pc = "returned", !.rc = LISTEN_FD,
                                !.failed = @ \cup {"set_nonblocking"}]
    /\ UNCHANGED listenVars

\* set_nonblocking 66-70: fcntl(fd, F_SETFL, flags | O_NONBLOCK)
listen_fcntl_setfl ==
    /\ ls.pc = "fcntl_setfl"
    /\ \E ok \in BOOLEAN :
          ls' = IF ok THEN [ls EXCEPT !.pc = "returned", !.nonblock = TRUE,
                                      !.rc = LISTEN_FD]
                ELSE [ls EXCEPT !.pc = "returned", !.rc = LISTEN_FD,
                                !.failed = @ \cup {"set_nonblocking"}]
    /\ UNCHANGED listenVars

\* main() 146-161: return 1 when listen_fd < 0, the session otherwise.
listen_result ==
    /\ ls.pc = "returned"
    /\ ls' = [ls EXCEPT !.pc = IF ls.rc < 0 THEN "exit_1" ELSE "session",
                        !.session = ls.rc >= 0]
    /\ UNCHANGED listenVars

NextListen ==
    \/ listen_init_paths \/ listen_mkdir \/ listen_stat_dir \/ listen_unlink
    \/ listen_socket \/ listen_bind \/ listen_chmod \/ listen_listen
    \/ listen_fcntl_getfl \/ listen_fcntl_setfl \/ listen_result

SpecListen == InitListen /\ [][NextListen]_vars

\* C26: when a step of listen() has failed (the path, the directory, the
\* bind, the permissions of the socket file, the listen, the non-blocking
\* mode) listen() returns an error, no listening descriptor, and the process
\* does not become a session.
C26_ListenFailsLoudly ==
    (ls.pc \in {"returned", "exit_1", "session"}
       /\ ls.failed \cap {"init_paths", "mkdir", "bind", "chmod", "listen",
                          "set_nonblocking"} # {}) =>
       /\ ls.rc = -1
       /\ ls.fd # "listening"
       /\ ~ls.session

\* Holds of the code: the failures of init_paths, mkdir, socket, bind and
\* listen are returned as -1.
ListenFailuresReturned ==
    (ls.pc \in {"returned", "exit_1", "session"}
       /\ ls.failed \cap {"init_paths", "mkdir", "socket", "bind", "listen"} # {})
    => (ls.rc = -1 /\ ls.fd # "listening" /\ ~ls.session)

(***************************************************************************)
(* InputSignals (input.c): the keyboard listener beside the one-shot       *)
(* queries.  The clock counts quarters of a second.                        *)
(*   inp.xkb    a keymap has been loaded (g_xkb_state is not NULL)         *)
(*   inp.mods_alt  Mod1 or Alt is active in the xkb state                  *)
(*   inp.now    the time of the next key event                             *)
(*   inp.fresh  per signal: an event of its kind has occurred since the    *)
(*              query last returned true                                   *)
(*   inp.ret    the last query and what it returned                        *)
(***************************************************************************)
MaxTime == 3        \* the clock's last value

\* deltaAlt < 500 (ms), in quarters of a second.
ALT_WINDOW == 2

KeyCodes == {"KEY_ESC", "KEY_TAB", "KEY_LEFTALT", "KEY_OTHER"}

InitInput ==
    /\ ses = InitSession(FALSE)
    /\ pc = "done"
    /\ list_changed = FALSE
    /\ wlQueue = <<>>
    /\ wlSock = <<>>
    /\ evbuf = <<>>
    /\ evsock = <<>>
    /\ ipcq = <<>>
    /\ world = <<>>
    /\ env = 0
    /\ last = Did("init", FALSE, <<>>)
    /\ anchor_closed = FALSE
    /\ el = ElIdle
    /\ er = ErIdle
    /\ ac = AcIdle
    /\ sd = SdIdle
    /\ rf = RfIdle
    /\ pl = PlIdle
    /\ wire = WireIdle
    /\ rq = RqIdle
    /\ fc = FcIdle
    /\ srt = SrtIdle
    /\ pe = PeIdle
    /\ cu = CuIdle
    /\ ls = LsIdle
    /\ \E xkb \in BOOLEAN :
        inp = [pc |-> "on",
              xkb |-> xkb,
              mods_alt |-> FALSE,
              g_alt_down |-> FALSE,
              g_esc_flag |-> FALSE,
              g_alt_tab_flag |-> FALSE,
              g_focus_lost_flag |-> FALSE,
              g_has_focus |-> FALSE,
              g_last_alt_press_time |-> 0,
              g_last_key_time |-> 0,
              now |-> 1,
              fresh |-> [escape |-> FALSE, chord |-> FALSE, lost |-> FALSE],
              ret |-> [query |-> "none", value |-> FALSE, seq |-> 0]]

\* Time passes.
InputTick ==
    /\ inp.pc = "on" /\ inp.now < MaxTime
    /\ inp' = [inp EXCEPT !.now = @ + 1]
    /\ UNCHANGED inputVars

\* update_mods_from_state (lines 36-46): with an xkb state, Alt is down iff
\* the state says so.
update_mods_from_state(s) ==
    IF s.xkb THEN [s EXCEPT !.g_alt_down = s.mods_alt] ELSE s

\* keyboard_modifiers (lines 208-226): the compositor reports the modifiers.
keyboard_modifiers(s, alt) ==
    IF s.xkb THEN update_mods_from_state([s EXCEPT !.mods_alt = alt]) ELSE s

\* keyboard_key (lines 147-206) for a key pressed or released at time now.
keyboard_key(s, key, pressed) ==
    update_mods_from_state(
       IF pressed
       THEN LET s0 == IF key = "KEY_TAB" THEN update_mods_from_state(s) ELSE s
                s1 == CASE key = "KEY_ESC" -> [s0 EXCEPT !.g_esc_flag = TRUE]
                        [] key = "KEY_TAB" /\ s0.g_alt_down ->
                              [s0 EXCEPT !.g_alt_tab_flag = TRUE]
                        [] OTHER -> s0
                s2 == [s1 EXCEPT !.g_last_key_time = s.now]
            IN IF key = "KEY_LEFTALT"
               THEN [s2 EXCEPT !.g_alt_down = TRUE, !.g_last_alt_press_time = s.now]
               ELSE s2
       ELSE IF key = "KEY_LEFTALT" THEN [s EXCEPT !.g_alt_down = FALSE] ELSE s)

\* The cycle modifier is held: as the xkb state has it, or as the key events
\* have left it.
AltHeld(s) == IF s.xkb THEN s.mods_alt ELSE s.g_alt_down

\* keyboard_leave (lines 124-145): the focus is lost, and the chord is
\* inferred when a key followed the last press of Alt by less than 500 ms.
keyboard_leave(s) ==
    LET deltaAlt == IF s.g_last_key_time > s.g_last_alt_press_time
                    THEN s.g_last_key_time - s.g_last_alt_press_time
                    ELSE ALT_WINDOW
        inferredAltTab == s.g_last_alt_press_time # 0 /\ deltaAlt < ALT_WINDOW
    IN [s EXCEPT !.g_alt_tab_flag = @ \/ inferredAltTab,
                 !.g_focus_lost_flag = TRUE,
                 !.g_alt_down = FALSE,
                 !.g_has_focus = FALSE]

\* keyboard_enter (lines 111-122)
keyboard_enter(s) == [s EXCEPT !.g_alt_down = FALSE, !.g_has_focus = TRUE]

\* The compositor delivers a key: Escape pressed is an event of the escape
\* kind, Tab pressed while Alt is held one of the chord kind.
InputKey ==
    /\ inp.pc = "on"
    /\ \E key \in KeyCodes, pressed \in BOOLEAN :
          LET s == keyboard_key(inp, key, pressed)
          IN inp' = [s EXCEPT
                       !.fresh.escape = @ \/ (pressed /\ key = "KEY_ESC"),
                       !.fresh.chord = @ \/ (pressed /\ key = "KEY_TAB" /\ AltHeld(inp))]
    /\ UNCHANGED inputVars

\* The surface loses the keyboard focus: an event of the focus-lost kind,
\* and of the chord kind when Alt had just been pressed.
InputLeave ==
    /\ inp.pc = "on"
    /\ LET s == keyboard_leave(inp)
       IN inp' = [s EXCEPT
                    !.fresh.lost = TRUE,
                    !.fresh.chord = @ \/ (/\ inp.g_last_alt_press_time # 0
                                          /\ inp.g_last_key_time > inp.g_last_alt_press_time
                                          /\ inp.g_last_key_time - inp.g_last_alt_press_time
                                                < ALT_WINDOW)]
    /\ UNCHANGED inputVars

InputEnter ==
    /\ inp.pc = "on"
    /\ inp' = keyboard_enter(inp)
    /\ UNCHANGED inputVars

InputModifiers ==
    /\ inp.pc = "on" /\ inp.xkb
    /\ \E alt \in BOOLEAN : inp' = keyboard_modifiers(inp, alt)
    /\ UNCHANGED inputVars

\* input_focus_lost that leaves its flag raised.
input_focus_lost_keep(s) == [ret |-> s.g_focus_lost_flag, state |-> s]

\* input_focus_lost, input_escape_pressed, input_alt_tab_triggered (lines
\* 275-300): the value returned and the state left.
input_focus_lost(s) ==
    [ret |-> s.g_focus_lost_flag, state |-> [s EXCEPT !.g_focus_lost_flag = FALSE]]

input_escape_pressed(s) ==
    [ret |-> s.g_esc_flag, state |-> [s EXCEPT !.g_esc_flag = FALSE]]

input_alt_tab_triggered(s) ==
    [ret |-> s.g_alt_tab_flag, state |-> [s EXCEPT !.g_alt_tab_flag = FALSE]]

\* A query is called; a true answer uses up the events of its kind so far.
InputQuery(query, r) ==
    /\ inp.pc = "on"
    /\ inp' = [r.state EXCEPT !.ret = [query |-> query, value |-> r.ret,
                                       seq |-> 1 - inp.ret.seq],
                              !.fresh[query] = @ /\ ~r.ret]
    /\ UNCHANGED inputVars

QueryFocusLost == InputQuery("lost", input_focus_lost(inp))

QueryEscape == InputQuery("escape", input_escape_pressed(inp))

QueryAltTab == InputQuery("chord", input_alt_tab_triggered(inp))

\* input_clear_flags (lines 302-306)
InputClearFlags ==
    /\ inp.pc = "on"
    /\ inp' = [inp EXCEPT !.g_esc_flag = FALSE, !.g_alt_tab_flag = FALSE,
                          !.g_focus_lost_flag = FALSE]
    /\ UNCHANGED inputVars

NextInput ==
    \/ InputTick \/ InputKey \/ InputLeave \/ InputEnter \/ InputModifiers
    \/ QueryFocusLost \/ QueryEscape \/ QueryAltTab \/ InputClearFlags

SpecInput == InitInput /\ [][NextInput]_vars

Helpers == {p \in Procs : el.helper[p]}

\* A helper keeps out of everything a main instance does: it stands in the
\* send or has returned, it owns no socket file and no listening socket (the
\* directory is fetched and focus is dispatched only between "listen_unlink"
\* and the end of "main").
HelperKeepsOut(p) ==
    /\ el.pcs[p] \in {"send", "exit_0", "exit_1", "sigpipe"}
    /\ el.pcs[p] \notin Listening
    /\ p \notin el.listening
    /\ el.file # p

\* C28 as stated: an invocation whose try_connect succeeded sends exactly
\* one command frame on that connection and exits, and it never creates a
\* listening socket, fetches the directory or changes a focus.
C28_HelperSendsOneFrame ==
    \A p \in Helpers :
       /\ HelperKeepsOut(p)
       /\ el.pcs[p] # "send" => el.frames[p] = 1

\* C28 amended: an invocation whose try_connect succeeded makes exactly one
\* write of one frame on that connection and exits; the frame has been sent
\* whole iff the exit code is 0, a failed write sends none and ends the run
\* with exit code 1 or with SIGPIPE; it never creates a listening socket,
\* fetches the directory or changes a focus.
C28_HelperWritesOnce ==
    \A p \in Helpers :
       /\ HelperKeepsOut(p)
       /\ el.writes[p] = (IF el.pcs[p] = "send" THEN 0 ELSE 1)
       /\ el.frames[p] = (IF el.pcs[p] = "exit_0" THEN 1 ELSE 0)

\* A helper has sent its frame to a running main instance and returned 0.
C28_Witness ==
    \E p \in Helpers :
       /\ el.pcs[p] = "exit_0" /\ el.writes[p] = 1 /\ el.frames[p] = 1
       /\ \E m \in Procs : el.pcs[m] = "main" /\ el.file = m

(***************************************************************************)
(* The selected address after selection_set (wayland.c 154-195) and after  *)
(* layer_surface_configure (526-536).                                      *)
(***************************************************************************)
\* g_selected_address names the record at the cursor, and nothing when the
\* cursor is NONE.
SelectedAddressCurrent(s) ==
    s.g_selected_address =
       (IF s.g_selection_index = NONE THEN NULL
        ELSE s.g_clients[s.g_selection_index + 1].address)

\* The steps that end in selection_set or in the configure's own update.
SetSelectionStep ==
    RefreshStep \/ ConfigureStep \/ CycleForwardStep \/ CycleBackwardStep

\* C29: after every setSelection (every cycle, refresh and configure) the
\* selected address is that of the record at the cursor when the cursor is
\* an index, and none when the cursor is none.
C29_SelectedAddressRecomputed ==
    [][SetSelectionStep => SelectedAddressCurrent(ses')]_vars

\* Whenever the sequence is not empty after such a step, the selected
\* address is that of the record at the cursor.
SelectedAddressOfRecord ==
    [][(SetSelectionStep /\ ses'.g_clients # <<>>)
         => (ses'.g_selection_index # NONE /\ SelectedAddressCurrent(ses'))]_vars

(***************************************************************************)
(* The poll section of wayland_loop_with_ipc (wayland.c 771-902), one      *)
(* library or system call per step.                                        *)
(*   pl.sock      the compositor has sent bytes that have not been read    *)
(*   pl.hup       the compositor's end of the connection is gone           *)
(*   pl.queued    events stand in the display's queue, read and not yet    *)
(*                dispatched                                               *)
(*   pl.readers   the display's count of announced readers                 *)
(*   pl.prepared  wl_display_prepare_read has returned 0 in this iteration *)
(*   pl.reads, pl.cancels  the calls of wl_display_read_events and of      *)
(*                wl_display_cancel_read made in this iteration            *)
(*   pl.pr, pl.revents  the result of poll() and pfds[0].revents           *)
(***************************************************************************)
InitPoll ==
    /\ ses = InitSession(FALSE)
    /\ pc = "done"
    /\ list_changed = FALSE
    /\ wlQueue = <<>>
    /\ wlSock = <<>>
    /\ evbuf = <<>>
    /\ evsock = <<>>
    /\ ipcq = <<>>
    /\ world = <<>>
    /\ env = 0
    /\ last = Did("init", FALSE, <<>>)
    /\ anchor_closed = FALSE
    /\ el = ElIdle
    /\ er = ErIdle
    /\ ac = AcIdle
    /\ sd = SdIdle
    /\ rf = RfIdle
    /\ inp = InpIdle
    /\ ls = LsIdle
    /\ cu = CuIdle
    /\ pe = PeIdle
    /\ srt = SrtIdle
    /\ wire = WireIdle
    /\ rq = RqIdle
    /\ fc = FcIdle
    /\ pl = [pc |-> "head", display |-> TRUE, sock |-> FALSE, hup |-> FALSE,
             queued |-> FALSE, readers |-> 0, prepared |-> FALSE,
             reads |-> 0, cancels |-> 0, pr |-> 0, revents |-> {}]

\* The compositor sends events.
PollCompositorSends ==
    /\ pl.pc \notin {"off", "done"}
    /\ ~pl.hup /\ ~pl.sock
    /\ pl' = [pl EXCEPT !.sock = TRUE]
    /\ UNCHANGED pollVars

\* The compositor goes away.
PollCompositorHangs ==
    /\ pl.pc \notin {"off", "done"}
    /\ ~pl.hup
    /\ pl' = [pl EXCEPT !.hup = TRUE]
    /\ UNCHANGED pollVars

\* wl_display_cancel_read
cancel_read(s) == [s EXCEPT !.readers = @ - 1, !.cancels = @ + 1]

\* wl_display_read_events: the announced read is over whatever the result;
\* what was read stands in the queue.
read_events(s, ok) ==
    [s EXCEPT !.readers = @ - 1, !.reads = @ + 1,
              !.queued = @ \/ (ok /\ s.sock),
              !.sock = IF ok THEN FALSE ELSE @]

\* wayland_shutdown and break.
poll_shutdown(s) == [s EXCEPT !.display = FALSE, !.pc = "done"]

\* Lines 771-822: dispatch_pending, then the body of the iteration up to the
\* redraw; a signal or command that ends the session breaks out of the loop.
PollHead ==
    /\ pl.pc = "head"
    /\ \E ends \in BOOLEAN :
          LET s == [pl EXCEPT !.queued = FALSE, !.prepared = FALSE,
                              !.reads = 0, !.cancels = 0,
                              !.pr = 0, !.revents = {}]
          IN pl' = IF ends THEN poll_shutdown(s) ELSE [s EXCEPT !.pc = "prepare"]
    /\ UNCHANGED pollVars

\* Lines 825-828: wl_display_prepare_read fails iff events are queued.
PollPrepareRead ==
    /\ pl.pc = "prepare"
    /\ pl' = IF pl.queued THEN [pl EXCEPT !.pc = "head"]
             ELSE [pl EXCEPT !.readers = @ + 1, !.prepared = TRUE, !.pc = "flush"]
    /\ UNCHANGED pollVars

\* Lines 831-838: wl_display_flush; only a lost connection ends the loop.
PollFlush ==
    /\ pl.pc = "flush"
    /\ \E out \in {"ok", "EAGAIN"} \cup (IF pl.hup THEN {"EPIPE"} ELSE {}) :
          pl' = IF out = "EPIPE" THEN poll_shutdown(cancel_read(pl))
                ELSE [pl EXCEPT !.pc = "poll"]
    /\ UNCHANGED pollVars

\* What poll() reports for the display descriptor.
DisplayRevents(s) ==
    (IF s.sock \/ s.hup THEN {"POLLIN"} ELSE {}) \cup
    (IF s.hup THEN {"POLLHUP"} ELSE {})

\* Lines 840-852 and 898-901: poll(); EINTR, another error, the timeout, or
\* some descriptor ready (the display's, or one of the other two).
PollPoll ==
    /\ pl.pc = "poll"
    /\ \/ pl' = [cancel_read(pl) EXCEPT !.pr = -1, !.pc = "head"]
       \/ pl' = poll_shutdown([cancel_read(pl) EXCEPT !.pr = -1])
       \/ /\ DisplayRevents(pl) = {}
          /\ pl' = [cancel_read(pl) EXCEPT !.pr = 0, !.pc = "head"]
       \/ \E others \in 0..2 :
             /\ DisplayRevents(pl) # {} \/ others > 0
             /\ pl' = [pl EXCEPT !.pr = others + (IF DisplayRevents(pl) # {} THEN 1 ELSE 0),
                                 !.revents = DisplayRevents(pl),
                                 !.pc = "revents"]
    /\ UNCHANGED pollVars

\* Lines 854-867: the display descriptor is readable: read_events and
\* dispatch_pending, or on failure cancel_read and shutdown; it is not:
\* cancel_read.
PollReadOrCancel ==
    /\ pl.pc = "revents"
    /\ IF "POLLIN" \in pl.revents
       THEN \E ok \in (IF pl.hup THEN BOOLEAN ELSE {TRUE}) :
               pl' = IF ok
                     THEN [read_events(pl, TRUE) EXCEPT !.queued = FALSE,
                                                        !.pc = "errors"]
                     ELSE poll_shutdown(cancel_read(read_events(pl, FALSE)))
       ELSE pl' = [cancel_read(pl) EXCEPT !.pc = "errors"]
    /\ UNCHANGED pollVars

\* Lines 869-896: POLLERR or POLLHUP on the display ends the loop; the other
\* descriptors are served at the head of the next iteration.
PollErrors ==
    /\ pl.pc = "errors"
    /\ pl' = IF "POLLHUP" \in pl.revents THEN poll_shutdown(pl)
             ELSE [pl EXCEPT !.pc = "head"]
    /\ UNCHANGED pollVars

NextPoll ==
    \/ PollCompositorSends \/ PollCompositorHangs
    \/ PollHead \/ PollPrepareRead \/ PollFlush \/ PollPoll
    \/ PollReadOrCancel \/ PollErrors

SpecPoll == InitPoll /\ [][NextPoll]_vars

\* An iteration is over: the loop stands at its head again or has ended.
IterationOver == pl.pc \in {"head", "done"}

\* C30: every successful prepare_read is followed, before the next
\* prepare_read or the end of the loop, by exactly one of read_events and
\* cancel_read, on every path (ready, timeout, interrupt, poll error, flush
\* error, read failure).
C30_ReadOrCancelOnce ==
    (IterationOver /\ pl.prepared) => pl.reads + pl.cancels = 1

\* No announced read is left open, and both calls are made only when
\* read_events has failed.
AnnouncedReadClosed ==
    (IterationOver /\ pl.prepared) =>
       /\ pl.reads + pl.cancels >= 1
       /\ pl.reads <= 1 /\ pl.cancels <= 1
       /\ (pl.reads = 1 /\ pl.cancels = 1) => (pl.pc = "done" /\ pl.hup)

(***************************************************************************)
(* The session loop as a running process (wayland.c 770-902): poll() has a *)
(* 50 ms timeout, so a loop that can take a step takes one.  The directory *)
(* request of a refresh can also fail to return: hypr_ipc_send_recv        *)
(* (ipc.c 77-128) goes round between poll() and read() for ever once the   *)
(* compositor has closed the connection before a complete document.        *)
(***************************************************************************)
\* refresh_client_list 279-285: the old sequence is freed, the request is
\* sent and the peer closes; the call stands in poll().
RefreshHang ==
    /\ pc = "refresh"
    /\ ses.g_clients_dirty
    /\ env < MaxEnv
    /\ ses' = [ses EXCEPT !.g_clients = <<>>]
    /\ pc' = "fetch_poll"
    /\ env' = env + 1
    /\ last' = [Did("fetch_eof", TRUE, <<>>)
                  EXCEPT !.index = ses.g_selection_index,
                         !.address = ses.g_selected_address]
    /\ UNCHANGED <<list_changed, wlQueue, wlSock, evbuf, evsock, ipcq, world, aside, anchor_closed>>

\* ipc.c 77-113: poll() reports the closed descriptor ready, read() returns
\* 0 and the inner loop breaks back to poll().
FetchSpin ==
    /\ pc \in {"fetch_poll", "fetch_read"}
    /\ pc' = IF pc = "fetch_poll" THEN "fetch_read" ELSE "fetch_poll"
    /\ UNCHANGED <<ses, list_changed, wlQueue, wlSock, evbuf, evsock, ipcq, world, env, aside, last, anchor_closed>>

\* The steps of the process.
LoopStep ==
    \/ ProcessHyprEvents \/ Refresh \/ ProcessIpcCommands
    \/ CheckFocusLost \/ CheckEscape \/ CheckAltTab \/ CheckAltReleased
    \/ Poll \/ Dispatch \/ Exit
    \/ RefreshHang \/ FetchSpin

\* The steps of the process whose directory requests all return.
LoopStepReturning ==
    \/ ProcessHyprEvents \/ Refresh \/ ProcessIpcCommands
    \/ CheckFocusLost \/ CheckEscape \/ CheckAltTab \/ CheckAltReleased
    \/ Poll \/ Dispatch \/ Exit

\* The environment of the running loop: the compositor sends display events
\* (keys among them) and windows close; no helper connects.
NextLive == EnvDisplay \/ EnvCloseWindow \/ LoopStep

\* The session starts with at most one window open.
InitLive == Init /\ Len(world) <= 1

SpecLive == InitLive /\ [][NextLive]_vars /\ WF_vars(LoopStep)

\* The same loop and environment, every directory request returning.
SpecLiveReturning ==
    InitLive /\ [][EnvDisplay \/ EnvCloseWindow \/ LoopStepReturning]_vars
         /\ WF_vars(LoopStepReturning)

\* The input signals raised and not yet consumed.
SignalsPending(s) ==
    {f \in {"g_focus_lost_flag", "g_esc_flag", "g_alt_tab_flag", "g_alt_released_flag"} :
        s[f]}

\* C31: every input signal raised while the session is Active is consumed
\* by the loop after boundedly many steps, ready descriptor or not; once an
\* escape or a modifier-released signal is raised the session eventually
\* reaches Terminated.
C31_SignalsServed ==
    /\ (ses.display /\ SignalsPending(ses) # {}) ~> (SignalsPending(ses) = {})
    /\ (ses.display /\ (ses.g_esc_flag \/ ses.g_alt_released_flag)) ~> ~ses.display

(***************************************************************************)
(* The chord signal and the terminal operations (wayland.c 790-817).       *)
(***************************************************************************)
\* A terminal operation: the commit or cancel run by a command or by an
\* input check.
TerminalStep ==
    /\ ProgramStep /\ ses.display /\ ~ses'.display
    /\ last'.op \in {"ipc_commit", "ipc_cancel", "focus_lost", "escape", "alt_released"}

\* C32: every chord signal raised while Active, that inferred from a loss of
\* keyboard focus within 500 ms of a modifier press included, results in one
\* cycle step before any terminal operation closes the session: no terminal
\* operation runs while a chord signal is raised and not yet applied.
C32_ChordCyclesBeforeTerminal ==
    [][TerminalStep => ~ses.g_alt_tab_flag]_vars

\* The chord signal inferred from a loss of focus is never applied: the
\* focus-lost check closes the session with the signal still raised.
LeaveChordDropped ==
    [][(pc = "dispatch" /\ wlQueue # <<>> /\ Head(wlQueue) = "leave_alt"
        /\ pc' \in {"events", "dispatch"})
         => (ses'.g_alt_tab_flag /\ ses'.g_focus_lost_flag)]_vars

(***************************************************************************)
(* refresh_client_list (wayland.c 273-330) statement by statement inside   *)
(* the loop, beside an environment that writes to the three sockets and    *)
(* closes windows at any moment, the moments inside the refresh included.  *)
(*   rf.ses    the session's globals                                       *)
(*   rf.old_selected  the refresh's local copy of the selected address     *)
(*   rf.wl, rf.ev, rf.ipc  what waits on the display socket, on the event  *)
(*             socket (one entry per line) and in the backlog              *)
(*   rf.world  the compositor's windows; rf.env the environment's steps    *)
(*   rf.during the environment's steps taken inside the current refresh    *)
(***************************************************************************)
\* The descriptors another than its own that the directory request serves
\* while it waits: hypr_ipc_send_recv polls the control socket alone.
FetchWaitServes_display == {"display"}

FetchWaitServes == {}

\* The statements of refresh_client_list, in order.
RefreshPcs == <<"save", "free", "fetch", "sort", "restore", "preserve", "resize">>

\* From the discarding of the old sequence to the relocation of the cursor.
InRefresh(r) == r.pc \in {"fetch", "sort", "restore", "preserve"}

InitRefresh ==
    /\ ses = InitSession(FALSE)
    /\ pc = "done"
    /\ list_changed = FALSE
    /\ wlQueue = <<>>
    /\ wlSock = <<>>
    /\ evbuf = <<>>
    /\ evsock = <<>>
    /\ ipcq = <<>>
    /\ world = <<>>
    /\ env = 0
    /\ last = Did("init", FALSE, <<>>)
    /\ anchor_closed = FALSE
    /\ el = ElIdle
    /\ er = ErIdle
    /\ ac = AcIdle
    /\ sd = SdIdle
    /\ inp = InpIdle
    /\ ls = LsIdle
    /\ cu = CuIdle
    /\ pe = PeIdle
    /\ srt = SrtIdle
    /\ wire = WireIdle
    /\ rq = RqIdle
    /\ fc = FcIdle
    /\ pl = PlIdle
    /\ \E w \in InitWorlds :
          rf = [pc |-> "events",
                ses |-> layer_surface_configure(InitSession(TRUE),
                                                hypr_ipc_get_clients_basic(w, TRUE)),
                old_selected |-> NULL,
                wl |-> <<>>, ev |-> <<>>, ipc |-> <<>>,
                world |-> w, env |-> 0, during |-> 0,
                peer |-> "open", pfds |-> <<"display", "ipc", "events">>,
                nfds |-> 3, hypr_events_poll_idx |-> 3, hup |-> FALSE,
                served |-> {}]

\* The compositor sends a display event, a window closes (and the event
\* socket, while the compositor holds it open, carries its line), a helper
\* sends a CYCLE frame, the compositor closes its end of the event socket.
RefreshEnv ==
    /\ rf.pc \notin {"off", "done"}
    /\ rf.env < MaxEnv
    /\ LET r == [rf EXCEPT !.env = @ + 1,
                           !.during = IF InRefresh(rf) THEN @ + 1 ELSE @]
       IN \/ \E tok \in {"configure", "key_tab_alt", "key_escape"} :
                rf' = [r EXCEPT !.wl = Append(@, tok)]
          \/ \E i \in 1..Len(rf.world) :
                rf' = [r EXCEPT !.world = RemoveAt(@, i),
                                !.ev = IF rf.peer = "open"
                                       THEN Append(@, rf.world[i]) ELSE @]
          \/ rf' = [r EXCEPT !.ipc = Append(@, "CYCLE")]
          \/ /\ rf.peer = "open"
             /\ rf' = [r EXCEPT !.peer = "closed"]
    /\ UNCHANGED refreshVars

\* process_hypr_events (336-387): every closewindow line clears the anchor it
\* names and marks the sequence dirty; lines 779-782 go on to the refresh.
RefreshEvents ==
    /\ rf.pc = "events"
    /\ rf.ses.g_hypr_events_fd
    /\ LET s1 == IF rf.ses.g_initial_focus_address # NULL
                    /\ rf.ses.g_initial_focus_address \in Range(rf.ev)
                 THEN [rf.ses EXCEPT !.g_initial_focus_address = NULL,
                                     !.g_initial_focus_index = NONE]
                 ELSE rf.ses
           s2 == [s1 EXCEPT !.g_clients_dirty = @ \/ rf.ev # <<>>]
       IN rf' = [rf EXCEPT !.ses = s2, !.ev = <<>>,
                           !.pc = IF s2.g_clients_dirty THEN "save" ELSE "ipc"]
    /\ UNCHANGED refreshVars

\* One statement of refresh_client_list.
refresh_statement(r) ==
    CASE r.pc = "save" ->
           [r EXCEPT !.old_selected = r.ses.g_selected_address, !.during = 0,
                     !.pc = "free"]
      [] r.pc = "free" ->
           [r EXCEPT !.ses.g_clients = <<>>, !.pc = "fetch"]
      [] r.pc = "fetch" ->
           [r EXCEPT !.ses.g_clients =
                        hypr_ipc_get_clients_basic(r.world, TRUE).list,
                     !.pc = "sort"]
      [] r.pc = "sort" ->
           [r EXCEPT !.ses.g_clients = hypr_ipc_sort_clients_by_focus(@),
                     !.pc = "restore"]
      [] r.pc = "restore" ->
           [r EXCEPT !.ses.g_selected_address =
                        IF r.old_selected # NULL THEN r.old_selected ELSE @,
                     !.pc = "preserve"]
      [] r.pc = "preserve" ->
           [r EXCEPT !.ses = preserve_selection(@), !.pc = "resize"]
      [] r.pc = "resize" ->
           [r EXCEPT !.ses.g_needs_redraw = TRUE, !.ses.g_clients_dirty = FALSE,
                     !.old_selected = NULL, !.pc = "ipc"]

\* Lines 775-782 with the event descriptor closed: process_hypr_events is
\* not called.
RefreshNoEvents ==
    /\ rf.pc = "events"
    /\ ~rf.ses.g_hypr_events_fd
    /\ rf' = [rf EXCEPT !.pc = IF rf.ses.g_clients_dirty THEN "save" ELSE "ipc"]
    /\ UNCHANGED refreshVars

RefreshStatement ==
    /\ rf.pc \in Range(RefreshPcs)
    /\ rf' = refresh_statement(rf)
    /\ UNCHANGED refreshVars

\* process_ipc_commands (685-730): one CYCLE frame accepted and dispatched.
RefreshCommands ==
    /\ rf.pc = "ipc"
    /\ rf' = IF rf.ipc = <<>> THEN [rf EXCEPT !.pc = "checks"]
             ELSE [rf EXCEPT !.ses = cycle_forward(@), !.ipc = Tail(@),
                             !.served = IF rf.ses.g_hypr_events_fd THEN @
                                        ELSE @ \cup {"command"}]
    /\ UNCHANGED refreshVars

\* Lines 790-817: escape cancels, the chord cycles.
RefreshChecks ==
    /\ rf.pc = "checks"
    /\ rf' = IF rf.ses.g_esc_flag
             THEN [rf EXCEPT !.ses = wayland_shutdown(@), !.pc = "done"]
             ELSE IF rf.ses.g_alt_tab_flag
             THEN [rf EXCEPT !.ses = cycle_forward([@ EXCEPT !.g_alt_tab_flag = FALSE]),
                             !.served = IF rf.ses.g_hypr_events_fd THEN @
                                        ELSE @ \cup {"chord"},
                             !.pc = "poll"]
             ELSE [rf EXCEPT !.pc = "poll"]
    /\ UNCHANGED refreshVars

\* Lines 876-895 with the removal from the polled set left out.
events_socket_disconnected_still_polled(r) ==
    IF r.hypr_events_poll_idx # NONE /\ r.hup
    THEN [r EXCEPT !.ses.g_hypr_events_fd = FALSE, !.ev = <<>>,
                   !.hypr_events_poll_idx = NONE, !.hup = FALSE]
    ELSE [r EXCEPT !.hup = FALSE]

\* Lines 876-895: the event descriptor's entry reported a hangup; the
\* descriptor is closed (hypr_events_disconnect, what was unread is gone), and
\* its entry leaves the polled array, the last entry taking its place.
events_socket_disconnected(r) ==
    IF r.hypr_events_poll_idx # NONE /\ r.hup
    THEN [r EXCEPT !.ses.g_hypr_events_fd = FALSE, !.ev = <<>>,
                   !.pfds = IF r.hypr_events_poll_idx < r.nfds
                            THEN [@ EXCEPT ![r.hypr_events_poll_idx] = r.pfds[r.nfds]]
                            ELSE @,
                   !.hypr_events_poll_idx = NONE,
                   !.nfds = @ - 1,
                   !.hup = FALSE]
    ELSE [r EXCEPT !.hup = FALSE]

\* The descriptors poll() watches.
Polled(r) == {r.pfds[i] : i \in 1..r.nfds}

\* Lines 824-902: the poll wait, ended by the timeout, by display events or
\* by the hangup of the event socket, which poll() reports for a socket whose
\* peer has closed.  Without display events the iteration goes on to the
\* hangup test at once.
RefreshPoll ==
    /\ rf.pc = "poll"
    /\ LET r == [rf EXCEPT !.hup = "events" \in Polled(rf) /\ rf.peer = "closed"]
       IN rf' = IF rf.wl # <<>> THEN [r EXCEPT !.pc = "dispatch"]
                ELSE [events_socket_disconnected(r) EXCEPT !.pc = "events"]
    /\ UNCHANGED refreshVars

\* wl_display_read_events and wl_display_dispatch_pending: the listener of
\* one display event.  The loop calls it after its poll; a directory request
\* would call it from inside the refresh if it served the display.
RefreshDispatch ==
    /\ \/ rf.pc = "dispatch"
       \/ rf.pc = "fetch" /\ "display" \in FetchWaitServes
    /\ rf.wl # <<>>
    /\ LET tok == Head(rf.wl)
           s1 == IF tok = "configure"
                 THEN layer_surface_configure(
                         rf.ses, hypr_ipc_get_clients_basic(rf.world, TRUE))
                 ELSE keyboard_event(rf.ses, tok)
           r == [rf EXCEPT !.ses = s1, !.wl = Tail(@)]
       IN rf' = IF rf.pc = "dispatch" /\ Tail(rf.wl) = <<>>
                THEN [events_socket_disconnected(r) EXCEPT !.pc = "events"]
                ELSE r
    /\ UNCHANGED refreshVars

NextRefresh ==
    \/ RefreshEnv \/ RefreshEvents \/ RefreshNoEvents \/ RefreshStatement
    \/ RefreshCommands
    \/ RefreshChecks \/ RefreshPoll \/ RefreshDispatch

SpecRefresh == InitRefresh /\ [][NextRefresh]_vars

\* C33: a refresh is atomic: between the discarding of the old sequence and
\* the relocation of the cursor every step is either the next statement of
\* the refresh or a step of the environment, which leaves the window
\* sequence, the cursor, the anchor and every other global of the session
\* alone; no command, input check, event or display listener runs.
C33_RefreshAtomic ==
    [][InRefresh(rf) =>
         \/ rf' = refresh_statement(rf)
         \/ /\ rf'.ses = rf.ses
            /\ rf'.pc = rf.pc
            /\ rf'.old_selected = rf.old_selected
            /\ rf'.during = rf.during + 1
            /\ Len(rf'.wl) >= Len(rf.wl)
            /\ Len(rf'.ev) >= Len(rf.ev)
            /\ Len(rf'.ipc) >= Len(rf.ipc)]_vars

\* The environment has taken two steps between the free and the relocation
\* of a refresh, which has gone on to relocate the cursor in a sequence that
\* is not empty.
C33_Witness ==
    /\ rf.pc = "resize"
    /\ rf.during >= 2
    /\ rf.old_selected # NULL
    /\ rf.ses.g_selection_index # NONE

\* C34: the hangup of the event socket does not end the session.  The step
\* that closes the descriptor changes nothing else in the session and leaves
\* the display connected; with the descriptor closed the polled set is the
\* display and the command descriptor (all three while it is open), the
\* window sequence is never marked dirty and no refresh runs; a queued command
\* still cycles, the escape signal still shuts down and the chord signal
\* still cycles.
C34_EventHangupSurvived ==
    /\ [](rf.pc \notin {"off", "done"} =>
            /\ rf.ses.g_hypr_events_fd => Polled(rf) = {"display", "ipc", "events"}
            /\ ~rf.ses.g_hypr_events_fd =>
                 /\ Polled(rf) = {"display", "ipc"}
                 /\ ~rf.ses.g_clients_dirty
                 /\ rf.pc \notin Range(RefreshPcs))
    /\ [][/\ (rf.ses.g_hypr_events_fd /\ ~rf'.ses.g_hypr_events_fd
                /\ rf.pc \in {"poll", "dispatch"})
               => /\ rf'.ses.display /\ rf'.ses.layer_surface
                  /\ rf'.pc = "events"
                  /\ rf.pc = "poll"
                       => rf'.ses = [rf.ses EXCEPT !.g_hypr_events_fd = FALSE]
          /\ (~rf.ses.g_hypr_events_fd /\ rf'.env = rf.env /\ rf.pc = "ipc"
                /\ rf.ipc # <<>>)
               => rf'.ses = cycle_forward(rf.ses)
          /\ (~rf.ses.g_hypr_events_fd /\ rf'.env = rf.env /\ rf.pc = "checks"
                /\ rf.ses.g_esc_flag)
               => ~rf'.ses.display
          /\ (~rf.ses.g_hypr_events_fd /\ rf'.env = rf.env /\ rf.pc = "checks"
                /\ ~rf.ses.g_esc_flag /\ rf.ses.g_alt_tab_flag)
               => rf'.ses = cycle_forward([rf.ses EXCEPT !.g_alt_tab_flag = FALSE])
         ]_vars

\* The compositor closed the event socket, the loop closed its descriptor,
\* and afterwards a command and a chord were both dispatched on a session
\* that is still up.
C34_Witness ==
    /\ rf.peer = "closed"
    /\ ~rf.ses.g_hypr_events_fd
    /\ rf.ses.display
    /\ rf.served = {"command", "chord"}
    /\ Len(rf.ses.g_clients) >= 2

(***************************************************************************)
(* wayland_shutdown (wayland.c 909-949) statement by statement, called     *)
(* twice on a session in any state the loop can call it in.                *)
(***************************************************************************)

\* The statements of wayland_shutdown with input_shutdown called first.
shutdown_statements_input_first ==
    <<"input", "events_fd", "layer_surface", "clients", "addresses", "indices",
      "surface", "globals", "display">>

\* The statements of wayland_shutdown, in the order of lines 913-947.
shutdown_statements ==
    <<"events_fd", "layer_surface", "clients", "addresses", "indices",
      "input", "surface", "globals", "display">>

\* One statement of wayland_shutdown on the record d: the session, the
\* keyboard of input.c and the other proxies of wayland.c.
shutdown_statement(d, st) ==
    CASE st = "events_fd" ->
           [d EXCEPT !.ses.g_hypr_events_fd = FALSE]
      [] st = "layer_surface" ->
           [d EXCEPT !.ses.layer_surface = FALSE]
      [] st = "clients" ->
           [d EXCEPT !.ses.g_clients = <<>>]
      [] st = "addresses" ->
           [d EXCEPT !.ses.g_initial_focus_address = NULL,
                     !.ses.g_selected_address = NULL]
      [] st = "indices" ->
           [d EXCEPT !.ses.g_selection_index = NONE,
                     !.ses.g_initial_focus_index = NONE]
      [] st = "input" ->
           [d EXCEPT !.ses = input_shutdown(@), !.g_keyboard = FALSE]
      [] st = "surface" ->
           [d EXCEPT !.surface = FALSE]
      [] st = "globals" ->
           [d EXCEPT !.globals = FALSE]
      [] st = "display" ->
           [d EXCEPT !.ses.display = FALSE]

\* The signals the listeners may have raised before the call.
ShutdownSignals == {"none", "key_escape", "key_tab_alt", "leave_alt"}

\* The session at the call: configured or not, the event socket connected or
\* not, a keyboard bound or not, any one signal raised.
InitShutdown ==
    /\ ses = InitSession(FALSE)
    /\ pc = "done"
    /\ list_changed = FALSE
    /\ wlQueue = <<>>
    /\ wlSock = <<>>
    /\ evbuf = <<>>
    /\ evsock = <<>>
    /\ ipcq = <<>>
    /\ world = <<>>
    /\ env = 0
    /\ last = Did("init", FALSE, <<>>)
    /\ anchor_closed = FALSE
    /\ el = ElIdle
    /\ er = ErIdle
    /\ ac = AcIdle
    /\ inp = InpIdle
    /\ ls = LsIdle
    /\ cu = CuIdle
    /\ pe = PeIdle
    /\ srt = SrtIdle
    /\ wire = WireIdle
    /\ rq = RqIdle
    /\ fc = FcIdle
    /\ pl = PlIdle
    /\ rf = RfIdle
    /\ \E w \in InitWorlds, evfd \in BOOLEAN, conf \in BOOLEAN,
          kb \in BOOLEAN, sig \in ShutdownSignals :
          LET s0 == InitSession(evfd)
              s1 == IF conf
                    THEN layer_surface_configure(s0, hypr_ipc_get_clients_basic(w, TRUE))
                    ELSE s0
              s2 == IF sig = "none" \/ ~kb THEN s1 ELSE keyboard_event(s1, sig)
          IN sd = [pc |-> "run", at |-> 1, call |-> 1, ran |-> {},
                   ses |-> s2, g_keyboard |-> kb, surface |-> TRUE,
                   globals |-> TRUE, start |-> s2]

\* The next statement of the running call.
ShutdownStatement ==
    /\ sd.pc = "run"
    /\ LET st == shutdown_statements[sd.at]
           d == [shutdown_statement(sd, st) EXCEPT !.ran = @ \cup {st}]
       IN sd' = IF sd.at < Len(shutdown_statements)
                THEN [d EXCEPT !.at = @ + 1]
                ELSE [d EXCEPT !.pc = "returned"]
    /\ UNCHANGED shutVars

\* A second call after the first has returned (lines 857-873: the listener
\* of the closed surface has shut down inside the dispatch and the error
\* test that follows shuts down again).
ShutdownAgain ==
    /\ sd.pc = "returned"
    /\ sd.call = 1
    /\ sd' = [sd EXCEPT !.pc = "run", !.at = 1, !.call = 2, !.ran = {}]
    /\ UNCHANGED shutVars

NextShutdown == ShutdownStatement \/ ShutdownAgain

SpecShutdown == InitShutdown /\ [][NextShutdown]_vars

\* What a call of wayland_shutdown holds on to.
Held(d) == <<d.ses, d.g_keyboard, d.surface, d.globals>>

\* C35: in every call of wayland_shutdown the event socket is closed by the
\* time input_shutdown has discarded the signals, and the layer surface is
\* destroyed by the time the display is disconnected; when the first call
\* returns the session is the one wayland_shutdown leaves; no statement of a
\* second call changes anything.
C35_TeardownOrder ==
    /\ [](sd.pc # "off" =>
            /\ "input" \in sd.ran => ~sd.ses.g_hypr_events_fd
            /\ ~sd.ses.display => ~sd.ses.layer_surface
            /\ (sd.ses.g_hypr_events_fd /\ sd.g_keyboard /\ sd.call = 1)
                 => SignalsPending(sd.ses) = SignalsPending(sd.start)
            /\ (sd.pc = "returned" /\ sd.call = 1)
                 => sd.ses = wayland_shutdown(sd.start))
    /\ [][sd.call = 2 => Held(sd') = Held(sd)]_vars

\* A configured session with the event socket connected, a keyboard and a
\* raised signal has been shut down twice.
C35_Witness ==
    /\ sd.pc = "returned"
    /\ sd.call = 2
    /\ sd.start.g_hypr_events_fd
    /\ sd.start.configured
    /\ SignalsPending(sd.start) # {}
    /\ Len(sd.start.g_clients) >= 2
    /\ ~sd.ses.display

(***************************************************************************)
(* Helpers beside process_ipc_commands.  A helper (main.c 107-125) has     *)
(* connected (switcher_ipc_try_connect), writes its frame                  *)
(* (switcher_ipc_send), closes and exits; the main instance                *)
(* (wayland.c 685-730) accepts a connection, reads it once without         *)
(* blocking, closes it and dispatches what it read.                        *)
(*   ac.h[p]      where helper p is, and its exit code                     *)
(*   ac.conn[p]   the connection of p: the frame in flight and which ends  *)
(*                are closed                                               *)
(*   ac.backlog   connections made and not yet accepted                    *)
(*   ac.m         where the main instance is, and on whose connection      *)
(*   ac.accepted  helpers in the order of their accept                     *)
(*   ac.dispatched  helpers whose command was dispatched, in order         *)
(***************************************************************************)
HelperCommands == {"CYCLE", "CYCLE_BACKWARD"}

InitAccept ==
    /\ ses = InitSession(FALSE)
    /\ pc = "done"
    /\ list_changed = FALSE
    /\ wlQueue = <<>>
    /\ wlSock = <<>>
    /\ evbuf = <<>>
    /\ evsock = <<>>
    /\ ipcq = <<>>
    /\ world = <<>>
    /\ env = 0
    /\ last = Did("init", FALSE, <<>>)
    /\ anchor_closed = FALSE
    /\ el = ElIdle
    /\ er = ErIdle
    /\ inp = InpIdle
    /\ ls = LsIdle
    /\ cu = CuIdle
    /\ pe = PeIdle
    /\ srt = SrtIdle
    /\ wire = WireIdle
    /\ rq = RqIdle
    /\ fc = FcIdle
    /\ pl = PlIdle
    /\ rf = RfIdle
    /\ sd = SdIdle
    /\ \E cmds \in [Procs -> HelperCommands], w \in InitWorlds :
          ac = [pc |-> "on",
                h |-> [p \in Procs |-> [pc |-> "connect", command |-> cmds[p],
                                        exit |-> NONE]],
                conn |-> [p \in Procs |-> [data |-> "EMPTY", helper_closed |-> FALSE,
                                           main_closed |-> FALSE]],
                backlog |-> <<>>,
                m |-> [pc |-> "accept", client |-> 0, cmd |-> "SWITCHER_CMD_TYPE_NONE"],
                ses |-> layer_surface_configure(InitSession(TRUE),
                                                hypr_ipc_get_clients_basic(w, TRUE)),
                accepted |-> <<>>,
                dispatched |-> <<>>]

\* switcher_ipc_try_connect: connect() returns once the connection is in the
\* listener's backlog, accepted or not.
AcceptHelperConnect(p) ==
    /\ ac.pc = "on" /\ ac.h[p].pc = "connect"
    /\ ac' = [ac EXCEPT !.h[p].pc = "write", !.backlog = Append(@, p)]
    /\ UNCHANGED acceptVars

\* switcher_ipc_send (main.c 112): write() queues the whole frame unless the
\* main instance has closed the connection, when it fails with EPIPE (and
\* SIGPIPE, not handled, ends the helper).
AcceptHelperWrite(p) ==
    /\ ac.pc = "on" /\ ac.h[p].pc = "write"
    /\ ac' = IF ac.conn[p].main_closed
             THEN [ac EXCEPT !.h[p].pc = "exited", !.h[p].exit = 1,
                             !.conn[p].helper_closed = TRUE]
             ELSE [ac EXCEPT !.h[p].pc = "close", !.conn[p].data = ac.h[p].command]
    /\ UNCHANGED acceptVars

\* main.c 113, 121-124: close(conn_fd), return 0.
AcceptHelperClose(p) ==
    /\ ac.pc = "on" /\ ac.h[p].pc = "close"
    /\ ac' = [ac EXCEPT !.h[p].pc = "exited", !.h[p].exit = 0,
                        !.conn[p].helper_closed = TRUE]
    /\ UNCHANGED acceptVars

\* switcher_ipc_accept (208-227): the first connection of the backlog.
AcceptAccept ==
    /\ ac.pc = "on" /\ ac.m.pc = "accept" /\ ac.backlog # <<>>
    /\ ac' = [ac EXCEPT !.m.pc = "read", !.m.client = Head(ac.backlog),
                        !.backlog = Tail(@),
                        !.accepted = Append(@, Head(ac.backlog))]
    /\ UNCHANGED acceptVars

\* switcher_ipc_read_command (229-268): one read() that does not block; with
\* nothing written yet it fails with EAGAIN, or returns 0 when the helper has
\* closed, and the command is SWITCHER_CMD_TYPE_NONE.
AcceptRead ==
    /\ ac.pc = "on" /\ ac.m.pc = "read"
    /\ ac' = [ac EXCEPT !.m.pc = "close",
                        !.m.cmd = accepted_command[ac.conn[ac.m.client].data],
                        !.conn[ac.m.client].data = "EMPTY"]
    /\ UNCHANGED acceptVars

\* Line 694: close(client_fd); what arrives unread is discarded.
AcceptClose ==
    /\ ac.pc = "on" /\ ac.m.pc = "close"
    /\ ac' = [ac EXCEPT !.m.pc = "dispatch",
                        !.conn[ac.m.client].main_closed = TRUE]
    /\ UNCHANGED acceptVars

\* Lines 696-728: the switch on the command.
AcceptDispatch ==
    /\ ac.pc = "on" /\ ac.m.pc = "dispatch"
    /\ ac' = CASE ac.m.cmd = "SWITCHER_CMD_TYPE_CYCLE" ->
                    [ac EXCEPT !.ses = cycle_forward(@), !.m.pc = "accept",
                               !.dispatched = Append(@, ac.m.client)]
               [] ac.m.cmd = "SWITCHER_CMD_TYPE_CYCLE_BACKWARD" ->
                    [ac EXCEPT !.ses = cycle_backward(@), !.m.pc = "accept",
                               !.dispatched = Append(@, ac.m.client)]
               [] OTHER -> [ac EXCEPT !.m.pc = "accept"]
    /\ UNCHANGED acceptVars

NextAccept ==
    \/ \E p \in Procs : AcceptHelperConnect(p)
    \/ \E p \in Procs : AcceptHelperWrite(p)
    \/ \E p \in Procs : AcceptHelperClose(p)
    \/ AcceptAccept \/ AcceptRead \/ AcceptClose \/ AcceptDispatch

SpecAccept == InitAccept /\ [][NextAccept]_vars

\* Every helper has exited and the main instance has nothing left to accept.
AcceptQuiet ==
    /\ ac.pc = "on"
    /\ \A p \in Procs : ac.h[p].pc = "exited"
    /\ ac.backlog = <<>>
    /\ ac.m.pc = "accept"

\* How many times p is in the sequence q.
Occurrences(q, p) == Cardinality({i \in 1..Len(q) : q[i] = p})

\* C36: once every helper has exited and every connection has been served,
\* each helper that exited with code 0 has had its command dispatched exactly
\* once, and the dispatches are in the order of the accepts.
C36_SentIsDispatchedOnce ==
    AcceptQuiet =>
       /\ \A p \in Procs :
            ac.h[p].exit = 0 => Occurrences(ac.dispatched, p) = 1
       /\ ac.dispatched = SelectSeq(ac.accepted,
                                    LAMBDA p : p \in Range(ac.dispatched))

\* What does hold: a command is dispatched at most once, only for a helper
\* that wrote it, and the dispatches follow the order of the accepts.
DispatchedAtMostOnce ==
    ac.pc = "on" =>
       /\ \A p \in Procs :
            /\ Occurrences(ac.dispatched, p) <= 1
            /\ Occurrences(ac.dispatched, p) = 1 => ac.h[p].pc \in {"close", "exited"}
       /\ ac.dispatched = SelectSeq(ac.accepted,
                                    LAMBDA p : p \in Range(ac.dispatched))

\* C37: every focus attempt of a cancel targets a record whose address is
\* the anchor address.
C37_CancelTargetsAnchorOnly ==
    [][CancelStep =>
         \A k \in 1..Len(last'.focus) :
            /\ ses.g_initial_focus_address # NULL
            /\ last'.focus[k].address = ses.g_initial_focus_address]_vars

\* C37, amended: a cancel makes at most one focus attempt; while the window
\* sequence holds a record with the anchor address the attempt targets a
\* record with that address; an attempt on a record with another address is
\* made only when no record has the anchor address, and targets the record
\* at the anchor index; with the anchor cleared there is no attempt.
C37_CancelTargetsAnchorWhilePresent ==
    [][CancelStep =>
         LET a == ses.g_initial_focus_address
             i == ses.g_initial_focus_index
         IN /\ Len(last'.focus) <= 1
            /\ (a # NULL /\ a \in Addresses(ses))
                  => /\ Len(last'.focus) = 1
                     /\ last'.focus[1].address = a
            /\ (Len(last'.focus) = 1 /\ last'.focus[1].address # a)
                  => /\ a \notin Addresses(ses)
                     /\ i \in 0..(Len(ses.g_clients) - 1)
                     /\ last'.focus[1] = ses.g_clients[i + 1]
            /\ (a = NULL /\ i = NONE) => last'.focus = <<>>]_vars

\* A CANCEL command has focused the anchor window, which a refresh had moved
\* away from the index it had when the anchor was recorded.
C37_Witness ==
    /\ last.op = "ipc_cancel"
    /\ Len(last.focus) = 1
    /\ last.address # NULL
    /\ last.focus[1].address = last.address
    /\ last.index # NONE
    /\ last.focus[1].focusHistoryID # last.index
    /\ ~ses.display

\* Whenever a main instance is alive and listening, the socket file at the
\* path exists and is the one its socket is bound to, so that a connect
\* reaches that instance.
LiveMainKeepsSocketFile ==
    \A p \in Procs : (el.pcs[p] = "main" /\ p \in el.listening) => el.file = p

\* The unlink of switcher_ipc_cleanup never removes the file another live
\* main instance is bound to.
CleanupSparesLiveFile ==
    [][\A p \in Procs :
         (el.pcs[p] = "cleanup_unlink" /\ el'.pcs[p] # el.pcs[p]) =>
            ~\E q \in Procs \ {p} :
                 el.pcs[q] = "main" /\ q \in el.listening /\ el.file = q]_vars

\* C38: the cleanup of one main instance never removes the socket file
\* another live main instance is bound to, and whenever a main instance is
\* alive and listening the socket file exists and leads to it.
C38_CleanupKeepsLiveSocketFile ==
    CleanupSparesLiveFile /\ []LiveMainKeepsSocketFile

\* The loop stands at process_ipc_commands or at one of the input checks.
AtDispatchPoint == pc \in {"ipc", "focus_lost", "escape", "alt_tab", "alt_released"}

\* C39: an activewindow or movewindow event changes neither the session nor
\* the pass's record of a changed list; a pass in which an openwindow or
\* closewindow event was handled ends at the refresh with the sequence marked
\* dirty; the refresh is one call, with one directory request, that clears
\* the mark and leads to the commands; the loop never stands at the commands
\* or at an input check with the sequence dirty.
C39_OneRefreshBeforeDispatch ==
    /\ [](AtDispatchPoint => (~ses.g_clients_dirty /\ ~list_changed))
    /\ [][/\ (EventReadStep /\ last'.op \in {"activewindow", "movewindow"}
                /\ pc' = "events" /\ evbuf' \o evsock' # evbuf \o evsock)
               => (ses' = ses /\ list_changed' = list_changed)
          /\ (EventReadStep /\ pc' # "events" /\ list_changed)
               => (pc' = "refresh" /\ ses'.g_clients_dirty)
          /\ (pc = "refresh" /\ pc' # "refresh")
               => (pc' = "ipc" /\ ~ses'.g_clients_dirty /\ last'.fetch
                   /\ last'.op \in {"refresh", "refresh_failed"})]_vars

\* A refresh has completed in an iteration that has a command waiting and
\* the chord signal raised, neither of them dispatched yet.
C39_Witness ==
    /\ last.op = "refresh"
    /\ pc = "ipc"
    /\ ipcq # <<>>
    /\ ses.g_alt_tab_flag
    /\ Len(ses.g_clients) >= 1

(***************************************************************************)
(* hypr_events_read (hypr_events.c 211-273) on the bytes of its buffer,    *)
(* beside a compositor that writes lines of any length.  A byte is "x",    *)
(* the separator ">" (for ">>") or the newline NL; a line parses when it   *)
(* holds the separator.  The buffer is scaled down from 4096 bytes.        *)
(*   er.buf       s_event_buffer[0 .. s_buffer_len - 1]                    *)
(*   er.sock      bytes written by the compositor and not yet read         *)
(*   er.written   lines the compositor has written                         *)
(*   er.consumed  lines hypr_events_read has taken out of the buffer       *)
(*   er.longest   bytes of the longest line written, its newline included  *)
(***************************************************************************)
EVENT_BUFFER_SIZE == 5      \* sizeof s_event_buffer
MaxLine == 5                \* bytes of a line before its newline
MaxLines == 2               \* lines the compositor writes

NL == "nl"

\* The lines the compositor writes: with or without the separator.
ReaderLines ==
    {[i \in 1..n |-> "x"] : n \in 0..MaxLine}
    \cup {<<">">> \o [i \in 1..n |-> "x"] : n \in 0..(MaxLine - 1)}

\* strchr(s_event_buffer, '\n'): the index of the first newline, 0 for none.
strchr_newline(buf) ==
    IF NL \in Range(buf)
    THEN CHOOSE i \in 1..Len(buf) : buf[i] = NL /\ \A j \in 1..(i - 1) : buf[j] # NL
    ELSE 0

\* Lines 220-230 and 249-258: the first line is cut out of the buffer and
\* parsed, what follows it moves to the front.
extract_line(buf) ==
    LET i == strchr_newline(buf)
        line == SubSeq(buf, 1, i - 1)
    IN [line |-> line, parsed |-> ">" \in Range(line),
        rest |-> SubSeq(buf, i + 1, Len(buf))]

\* hypr_events_read: buffer buf, socket sock, and a read() that returns up
\* to nread of the bytes it is asked for.
hypr_events_read_bytes(buf, sock, nread) ==
    LET first == strchr_newline(buf) # 0
        t1 == extract_line(buf)
        buf1 == IF first THEN t1.rest ELSE buf
        taken1 == IF first THEN 1 ELSE 0
    IN IF first /\ t1.parsed
       THEN [ret |-> TRUE, buf |-> buf1, sock |-> sock, taken |-> 1]
       ELSE LET space == EVENT_BUFFER_SIZE - Len(buf1) - 1
                avail == IF Len(sock) < space THEN Len(sock) ELSE space
                n == IF space > 0
                     THEN (IF nread < avail THEN nread ELSE avail)
                     ELSE 0
                buf2 == buf1 \o SubSeq(sock, 1, n)
                sock2 == SubSeq(sock, n + 1, Len(sock))
            IN IF n > 0 /\ strchr_newline(buf2) # 0
               THEN LET t2 == extract_line(buf2)
                    IN [ret |-> t2.parsed, buf |-> t2.rest, sock |-> sock2,
                        taken |-> taken1 + 1]
               ELSE [ret |-> FALSE, buf |-> buf2, sock |-> sock2, taken |-> taken1]

InitReader ==
    /\ ses = InitSession(FALSE)
    /\ pc = "done"
    /\ list_changed = FALSE
    /\ wlQueue = <<>>
    /\ wlSock = <<>>
    /\ evbuf = <<>>
    /\ evsock = <<>>
    /\ ipcq = <<>>
    /\ world = <<>>
    /\ env = 0
    /\ last = Did("init", FALSE, <<>>)
    /\ anchor_closed = FALSE
    /\ el = ElIdle
    /\ inp = InpIdle
    /\ ls = LsIdle
    /\ cu = CuIdle
    /\ pe = PeIdle
    /\ srt = SrtIdle
    /\ wire = WireIdle
    /\ rq = RqIdle
    /\ fc = FcIdle
    /\ pl = PlIdle
    /\ rf = RfIdle
    /\ sd = SdIdle
    /\ ac = AcIdle
    /\ er = [pc |-> "on", buf |-> <<>>, sock |-> <<>>, written |-> 0,
             consumed |-> 0, longest |-> 0, ret |-> FALSE]

\* The compositor writes one line and its newline.
ReaderCompositorWrites ==
    /\ er.pc = "on"
    /\ er.written < MaxLines
    /\ \E line \in ReaderLines :
          er' = [er EXCEPT !.sock = @ \o line \o <<NL>>,
                           !.written = @ + 1,
                           !.longest = IF Len(line) + 1 > @ THEN Len(line) + 1 ELSE @]
    /\ UNCHANGED readerVars

\* One call of hypr_events_read from process_hypr_events.
ReaderRead ==
    /\ er.pc = "on"
    /\ \E nread \in 1..EVENT_BUFFER_SIZE :
          LET r == hypr_events_read_bytes(er.buf, er.sock, nread)
          IN er' = [er EXCEPT !.buf = r.buf, !.sock = r.sock, !.ret = r.ret,
                              !.consumed = @ + r.taken]
    /\ UNCHANGED readerVars

NextReader == ReaderCompositorWrites \/ ReaderRead

SpecReader == InitReader /\ [][NextReader]_vars

\* The buffer is full and holds no newline.
Wedged ==
    /\ er.pc = "on"
    /\ Len(er.buf) = EVENT_BUFFER_SIZE - 1
    /\ NL \notin Range(er.buf)

\* C40: the reader never reaches a state in which its buffer is full and
\* holds no newline, where no call reads another byte and no line is
\* consumed any more.
C40_ReaderNeverWedged == ~Wedged

\* Once the buffer is full without a newline it stays so: no call changes
\* it, reads a byte or consumes a line.
WedgedForEver ==
    [][Wedged => (er'.buf = er.buf /\ er'.consumed = er.consumed
                  /\ Len(er'.sock) >= Len(er.sock))]_vars

\* What does hold: while every line written fits the buffer with its
\* newline, the buffer never fills without a newline, and with the socket
\* drained and no newline left in the buffer every line has been consumed.
FittingLinesConsumed ==
    (er.pc = "on" /\ er.longest <= EVENT_BUFFER_SIZE - 1) =>
       /\ ~Wedged
       /\ (er.sock = <<>> /\ NL \notin Range(er.buf)) => er.consumed = er.written

=============================================================================
